---- MODULE Spec2Model ----
(***************************************************************************)
(* The question-sheet store (src/src/store/useStore.js): the normalized    *)
(* tree sheet -> topic -> subtopic -> question, its mutators, the reorder  *)
(* algorithm, the load / reset cycle and the persisted state.              *)
(*                                                                         *)
(* Representation of JavaScript values:                                    *)
(*   - a JS string is a sequence of tokens (one-character strings, or      *)
(*     longer atoms where the code never looks inside them); "" is <<>>;   *)
(*   - a raw value that is not a string (undefined, a number) is one of    *)
(*     the sequences in NotAString, whose tokens no JS string contains;    *)
(*   - difficulty labels, filter values and themes are TLA+ strings;       *)
(*   - an array is a sequence (index 1 is JS index 0), `order` is 0-based; *)
(*   - an object is a record; a record lacks the properties the object     *)
(*     lacks.                                                              *)
(***************************************************************************)
EXTENDS Integers, Sequences, FiniteSets, TLC

\* ------------------------------------------------------------------------
\* Bounds of the model
\* ------------------------------------------------------------------------

\* calls that change the tree, counted from the last load of the tree
MaxEdits == 3
\* setTimeout callbacks of resetProgress that may be pending at the same time
MaxPending == 2

\* ------------------------------------------------------------------------
\* Constants of the store
\* ------------------------------------------------------------------------

DIFFICULTY_LEVELS == {"Easy", "Medium", "Hard", "Basic"}
FILTER_ALL == "all"
FILTER_SOLVED == "solved"
FILTER_UNSOLVED == "unsolved"
THEME_DARK == "dark"
THEME_LIGHT == "light"

\* JS values that are not strings
Undefined == <<"%undefined">>
ANumber == <<"%number">>
NotAString == {Undefined, ANumber}

\* sheet: null, error: null, localStorage.getItem(...) === null
NullSheet == [isNull |-> TRUE]
NoError == "null"
NoItem == [isNull |-> TRUE]
EmptyMap == <<>>

\* ------------------------------------------------------------------------
\* Utility functions
\* ------------------------------------------------------------------------

WhiteSpace == {" "}

RECURSIVE trimStart(_)
trimStart(s) ==
    IF s # <<>> /\ Head(s) \in WhiteSpace THEN trimStart(Tail(s)) ELSE s

RECURSIVE trimEnd(_)
trimEnd(s) ==
    IF s # <<>> /\ s[Len(s)] \in WhiteSpace
    THEN trimEnd(SubSeq(s, 1, Len(s) - 1))
    ELSE s

trim(s) == trimEnd(trimStart(s))

\* a sanitizer that does not trim: only a non-string and "" give the fallback
sanitizeStringNoTrim(value, fallback) ==
    IF value \in NotAString THEN fallback
    ELSE IF value = <<>> THEN fallback ELSE value

\* if (typeof value !== 'string') return fallback; return value.trim() || fallback
sanitizeString(value, fallback) ==
    IF value \in NotAString THEN fallback
    ELSE IF trim(value) = <<>> THEN fallback ELSE trim(value)

\* a validation that lets every label through
validateDifficultyAny(difficulty) == difficulty

\* validDifficulties.includes(difficulty) ? difficulty : MEDIUM
validateDifficulty(difficulty) ==
    IF difficulty \in DIFFICULTY_LEVELS THEN difficulty ELSE "Medium"

\* new URL(trimmed) succeeds: scheme ":" and, for the schemes with an
\* authority, "//" and a host
UrlParses(s) ==
    /\ Len(s) >= 3
    /\ s[1] \in {"http", "https", "ftp", "mailto"}
    /\ s[2] = ":"
    /\ IF s[1] = "mailto" THEN TRUE ELSE Len(s) >= 4 /\ s[3] = "//"

\* trimmed.startsWith('http')
StartsWithHttp(s) == s # <<>> /\ s[1] \in {"http", "https"}

validateUrl(url) ==
    IF url \in NotAString \/ url = <<>> THEN <<>>
    ELSE IF trim(url) = <<>> THEN <<>>
    ELSE IF UrlParses(trim(url)) THEN trim(url)
    ELSE IF StartsWithHttp(trim(url)) THEN trim(url) ELSE <<>>

\* !x for an id argument: undefined and "" are falsy
Falsy(x) == x \in NotAString \/ x = <<>>

\* `${prefix}-${uuidv4()}`, k the number of the uuid drawn
generateId(prefix, k) == <<prefix, "-", "uuid", ToString(k)>>

\* the uuids a user's add* calls draw from, and the ones an ingest draws from
UserUuids == 1 .. MaxEdits
IngestUuids == (MaxEdits + 1) .. (MaxEdits + 4)

IsGenerated(id, k) ==
    Len(id) = 4 /\ id[3] = "uuid" /\ id[4] = ToString(k)

UsedUuids(ids, pool) == {k \in pool : \E id \in ids : IsGenerated(id, k)}

\* uuidv4() returns a value that no identifier in existence has: the least
\* uuid of the pool that is not in use
FreshUuid(ids, pool) ==
    CHOOSE k \in pool \ UsedUuids(ids, pool) :
        \A j \in pool \ UsedUuids(ids, pool) : k <= j

\* array.findIndex(x => x.id === id): 0-based index, -1 when absent
RECURSIVE findIndexFrom(_, _, _)
findIndexFrom(array, id, i) ==
    IF i > Len(array) THEN -1
    ELSE IF array[i].id = id THEN i - 1
    ELSE findIndexFrom(array, id, i + 1)

findIndex(array, id) == findIndexFrom(array, id, 1)

\* array.filter(x => x.id !== id)
RECURSIVE filterOutId(_, _)
filterOutId(array, id) ==
    IF array = <<>> THEN <<>>
    ELSE IF Head(array).id = id THEN filterOutId(Tail(array), id)
    ELSE <<Head(array)>> \o filterOutId(Tail(array), id)

\* result.splice(index, 1) and result.splice(index, 0, item), 0-based index
spliceRemove(array, index) ==
    SubSeq(array, 1, index) \o SubSeq(array, index + 2, Len(array))

spliceInsert(array, index, item) ==
    SubSeq(array, 1, index) \o <<item>> \o SubSeq(array, index + 1, Len(array))

\* a reorder that exchanges the two items instead of moving one
reorderArraySwap(array, oldIndex, newIndex) ==
    IF oldIndex = -1 \/ newIndex = -1 \/ oldIndex = newIndex THEN array
    ELSE LET result == [array EXCEPT ![oldIndex + 1] = array[newIndex + 1],
                                     ![newIndex + 1] = array[oldIndex + 1]]
         IN  [index \in 1 .. Len(result) |-> [result[index] EXCEPT !.order = index - 1]]

\* a move that writes the moved item over the one at newIndex
reorderArrayOverwrite(array, oldIndex, newIndex) ==
    IF oldIndex = -1 \/ newIndex = -1 \/ oldIndex = newIndex THEN array
    ELSE [index \in 1 .. Len(array) |->
             [(IF index = newIndex + 1 THEN array[oldIndex + 1] ELSE array[index])
                 EXCEPT !.order = index - 1]]

reorderArray(array, oldIndex, newIndex) ==
    IF oldIndex = -1 \/ newIndex = -1 \/ oldIndex = newIndex THEN array
    ELSE LET removed == array[oldIndex + 1]
             result == spliceInsert(spliceRemove(array, oldIndex), newIndex, removed)
         IN  [index \in 1 .. Len(result) |-> [result[index] EXCEPT !.order = index - 1]]

\* ------------------------------------------------------------------------
\* Data transformation
\* ------------------------------------------------------------------------

General == <<"G", "e", "n">>
UntitledQuestion == <<"U", "n", "t">>
QuestionSheet == <<"Q", "S">>

\* index (1-based) of the entry of a Map keyed by name, 0 when absent
RECURSIVE mapIndexFrom(_, _, _)
mapIndexFrom(entries, name, i) ==
    IF i > Len(entries) THEN 0
    ELSE IF entries[i].name = name THEN i
    ELSE mapIndexFrom(entries, name, i + 1)

mapIndex(entries, name) == mapIndexFrom(entries, name, 1)

newTopicEntry(topicsMap, topicName) ==
    [id |-> <<"topic", "-", ToString(Len(topicsMap))>>,
     name |-> topicName,
     order |-> Len(topicsMap),
     subtopics |-> <<>>]

newSubtopicEntry(topic, subtopicName) ==
    [id |-> <<"subtopic", "-">> \o topic.id \o <<"-", ToString(Len(topic.subtopics))>>,
     name |-> subtopicName,
     order |-> Len(topic.subtopics),
     questions |-> <<>>]

newIngestQuestion(q, id, topicName, subtopicName, subtopic) ==
    [id |-> id,
     title |-> sanitizeString(q.title, UntitledQuestion),
     topic |-> topicName,
     subtopic |-> subtopicName,
     difficulty |-> validateDifficulty(q.questionId.difficulty),
     url |-> validateUrl(q.questionId.problemUrl),
     resource |-> sanitizeString(q.resource, <<>>),
     tags |-> IF q.questionId.topics = Undefined THEN <<>> ELSE q.questionId.topics,
     isSolved |-> (q.isSolved = "true"),
     order |-> Len(subtopic.questions),
     notes |-> <<>>]

\* questions.forEach(...): the records from index i on, topicsMap the Map
\* built so far (a sequence in insertion order), ids the identifiers in use.
\* One iteration: the entry of the topic (ti its index), the entry of the
\* subtopic (si its index in subs1), the push of the question.
RECURSIVE forEachQuestion(_, _, _, _)
pushQuestion(questions, i, map1, ti, subs1, si, names, id, ids) ==
    forEachQuestion(questions, i + 1,
        [map1 EXCEPT ![ti].subtopics =
            [subs1 EXCEPT ![si].questions =
                Append(@, newIngestQuestion(questions[i], id, names[1], names[2],
                                            subs1[si]))]],
        ids \cup {id})

inSubtopicEntry(questions, i, map1, ti, subs1, names, ids) ==
    pushQuestion(questions, i, map1, ti, subs1, mapIndex(subs1, names[2]), names,
                 IF Falsy(questions[i]._id)
                 THEN generateId("question", FreshUuid(ids, IngestUuids))
                 ELSE questions[i]._id,
                 ids)

inTopicEntry(questions, i, map1, ti, names, ids) ==
    inSubtopicEntry(questions, i, map1, ti,
                    IF mapIndex(map1[ti].subtopics, names[2]) = 0
                    THEN Append(map1[ti].subtopics, newSubtopicEntry(map1[ti], names[2]))
                    ELSE map1[ti].subtopics,
                    names, ids)

withTopicEntry(questions, i, map1, names, ids) ==
    inTopicEntry(questions, i, map1, mapIndex(map1, names[1]), names, ids)

\* a step that puts the entry of a new topic before the entries of the Map
withNamesNewFirst(questions, i, topicsMap, names, ids) ==
    withTopicEntry(questions, i,
                   IF mapIndex(topicsMap, names[1]) = 0
                   THEN <<newTopicEntry(topicsMap, names[1])>> \o topicsMap
                   ELSE topicsMap,
                   names, ids)

withNames(questions, i, topicsMap, names, ids) ==
    withTopicEntry(questions, i,
                   IF mapIndex(topicsMap, names[1]) = 0
                   THEN Append(topicsMap, newTopicEntry(topicsMap, names[1]))
                   ELSE topicsMap,
                   names, ids)

\* a loop that keys the maps by the names as they are written in the record
forEachQuestionRawNames(questions, i, topicsMap, ids) ==
    IF i > Len(questions) THEN topicsMap
    ELSE withNames(questions, i, topicsMap,
                   <<IF questions[i].topic = Undefined THEN General ELSE questions[i].topic,
                     IF questions[i].subTopic = Undefined THEN General ELSE questions[i].subTopic>>,
                   ids)

forEachQuestion(questions, i, topicsMap, ids) ==
    IF i > Len(questions) THEN topicsMap
    ELSE withNames(questions, i, topicsMap,
                   <<sanitizeString(questions[i].topic, General),
                     sanitizeString(questions[i].subTopic, General)>>,
                   ids)

transformSheet(sheet, ids) ==
    [id |-> IF Falsy(sheet._id)
            THEN generateId("sheet", FreshUuid(ids, IngestUuids))
            ELSE sheet._id,
     name |-> sanitizeString(sheet.name, QuestionSheet),
     description |-> sanitizeString(sheet.description, <<>>),
     author |-> sanitizeString(sheet.author, <<>>),
     followers |-> IF sheet.followers = "number" THEN sheet.followersValue ELSE 0,
     banner |-> sanitizeString(sheet.banner, <<>>),
     link |-> validateUrl(sheet.link),
     tags |-> IF sheet.tag = Undefined THEN <<>>
              ELSE SelectSeq(sheet.tag, LAMBDA t : t \notin NotAString)]

\* an ingest that reads a missing data.questions as an empty array
transformSheetDataNoQuestions(rawData, ids) ==
    IF ~rawData.hasSheet
    THEN [ok |-> FALSE, message |-> "Invalid sheet data format"]
    ELSE [ok |-> TRUE,
          sheet |-> transformSheet(rawData.sheet, ids),
          topics |-> forEachQuestion(rawData.questions, 1, <<>>, ids)]

\* return { sheet, topics }
ingested(sheet, topics_, ids) ==
    [ok |-> TRUE,
     sheet |-> transformSheet(sheet,
                   ids \cup UNION {UNION {{s.questions[k].id : k \in DOMAIN s.questions}
                                          : s \in {t.subtopics[j] : j \in DOMAIN t.subtopics}}
                                   : t \in {topics_[i] : i \in DOMAIN topics_}}),
     topics |-> topics_]

\* throws (ok = FALSE) when data.sheet or data.questions is missing
transformSheetData(rawData, ids) ==
    IF ~rawData.hasSheet \/ ~rawData.hasQuestions
    THEN [ok |-> FALSE, message |-> "Invalid sheet data format"]
    ELSE ingested(rawData.sheet, forEachQuestion(rawData.questions, 1, <<>>, ids), ids)

\* ------------------------------------------------------------------------
\* Source documents (sheet.json), the input of the ingest
\* ------------------------------------------------------------------------

\* a question record; questionId absent is questionId with undefined members
RawQuestion(id, topic, subTopic, title, difficulty, isSolved) ==
    [_id |-> id, title |-> title, topic |-> topic, subTopic |-> subTopic,
     resource |-> Undefined, isSolved |-> isSolved,
     questionId |-> [difficulty |-> difficulty,
                     problemUrl |-> <<"https", ":", "//", "x">>,
                     topics |-> <<<<"t">>>>]]

RawSheet ==
    [_id |-> <<"s", "1">>, name |-> <<" ", "S">>, description |-> Undefined,
     author |-> <<"a">>, followers |-> "number", followersValue |-> 7,
     banner |-> <<>>, link |-> <<"x">>, tag |-> <<<<"t">>, ANumber>>]

DocOf(questions) ==
    [hasSheet |-> TRUE, sheet |-> RawSheet, hasQuestions |-> TRUE, questions |-> questions]

\* two records of one subtopic, the second without _id
DocGood ==
    DocOf(<<RawQuestion(<<"q", "1">>, <<"A">>, <<"S">>, <<"a">>, "Easy", "false"),
            RawQuestion(Undefined, <<"A", " ">>, <<"S">>, <<" ">>, "easy", "true")>>)

\* two records with the same _id, under two topics, the second topic and
\* both subtopics named by the fallback
DocDup ==
    DocOf(<<RawQuestion(<<"q", "1">>, <<"A">>, Undefined, <<"a">>, "Easy", "false"),
            RawQuestion(<<"q", "1">>, Undefined, <<" ">>, <<"b">>, "Basic", "undefined")>>)

DocEmpty == DocOf(<<>>)

DocNoQuestions ==
    [hasSheet |-> TRUE, sheet |-> RawSheet, hasQuestions |-> FALSE, questions |-> <<>>]

DocNoSheet ==
    [hasSheet |-> FALSE, sheet |-> RawSheet, hasQuestions |-> TRUE,
     questions |-> <<RawQuestion(<<"q", "1">>, <<"A">>, <<"S">>, <<"a">>, "Easy", "false")>>]

Docs == {DocGood, DocDup, DocEmpty, DocNoQuestions, DocNoSheet}

\* ------------------------------------------------------------------------
\* State
\* ------------------------------------------------------------------------

VARIABLES
    sheetData,          \* the imported sheet.json
    sheet, topics, expandedTopics, expandedSubtopics, loading, error,
    searchQuery, filterDifficulty, filterStatus, theme, showStats,
    storage,            \* the item of localStorage under STORAGE_KEY
    pending,            \* setTimeout callbacks of resetProgress not yet run
    mounting,           \* the App's mount effect has not run yet
    edits,              \* calls that changed the tree since it was last loaded
    lastOp              \* the last call made on the store (observation only)

treeVars == <<sheet, topics, expandedTopics, expandedSubtopics, loading, error>>
uiVars == <<searchQuery, filterDifficulty, filterStatus, theme, showStats>>
vars == <<sheetData, sheet, topics, expandedTopics, expandedSubtopics, loading,
          error, searchQuery, filterDifficulty, filterStatus, theme, showStats,
          storage, pending, mounting, edits, lastOp>>

\* the record of the last call: its name, whether its arguments addressed an
\* existing target with valid input, and whether the sibling group addressed
\* had `order` values other than 0..n-1 before the call
Op(name, ok, gap) == [op |-> name, ok |-> ok, gap |-> gap]

\* ------------------------------------------------------------------------
\* Views of the tree
\* ------------------------------------------------------------------------

Range(seq) == {seq[i] : i \in DOMAIN seq}

Subtopics(tps) == UNION {Range(t.subtopics) : t \in Range(tps)}
Questions(tps) == UNION {Range(s.questions) : s \in Subtopics(tps)}

TopicIds(tps) == {t.id : t \in Range(tps)}
SubtopicIds(tps) == {s.id : s \in Subtopics(tps)}
QuestionIds(tps) == {q.id : q \in Questions(tps)}
AllIds(tps) == TopicIds(tps) \cup SubtopicIds(tps) \cup QuestionIds(tps)

\* every identifier the store holds
IdsInUse ==
    AllIds(topics) \cup DOMAIN expandedTopics \cup DOMAIN expandedSubtopics
        \cup (IF sheet = NullSheet THEN {} ELSE {sheet.id})

\* the sequence of ids and the sequence of `order` values of a sibling group
Ids(group) == [i \in DOMAIN group |-> group[i].id]
Orders(group) == [i \in DOMAIN group |-> group[i].order]

\* the `order` values are 0..n-1, each once
Dense(group) == \A n \in 0 .. Len(group) - 1 :
                    Cardinality({i \in DOMAIN group : group[i].order = n}) = 1

\* a uuid is left in the pool of the add* calls
HasFreshUuid == UserUuids \ UsedUuids(IdsInUse, UserUuids) # {}

\* ------------------------------------------------------------------------
\* Persistence: persist(..., {name: STORAGE_KEY, partialize})
\* ------------------------------------------------------------------------

\* a partialize that leaves the tree out
partializeNoTopics(tps, sh, eT, eS, th) ==
    [sheet |-> sh, expandedTopics |-> eT,
     expandedSubtopics |-> eS, theme |-> th, loading |-> FALSE]

partialize(tps, sh, eT, eS, th) ==
    [topics |-> tps, sheet |-> sh, expandedTopics |-> eT,
     expandedSubtopics |-> eS, theme |-> th, loading |-> FALSE]

\* JSON.stringify: the document as the set of its <<path, value>> leaves;
\* an array is written as its length and its elements
stringifyQuestions(prefix, questions) ==
    {<<prefix \o <<"length">>, Len(questions)>>} \cup
    UNION {{<<prefix \o <<ToString(k), f>>, questions[k][f]>> : f \in DOMAIN questions[k]}
           : k \in DOMAIN questions}

stringifySubtopics(prefix, subtopics) ==
    {<<prefix \o <<"length">>, Len(subtopics)>>} \cup
    UNION {{<<prefix \o <<ToString(j), f>>, subtopics[j][f]>>
               : f \in DOMAIN subtopics[j] \ {"questions"}}
           \cup stringifyQuestions(prefix \o <<ToString(j), "questions">>,
                                   subtopics[j].questions)
           : j \in DOMAIN subtopics}

stringifyTopics(prefix, tps) ==
    {<<prefix \o <<"length">>, Len(tps)>>} \cup
    UNION {{<<prefix \o <<ToString(i), f>>, tps[i][f]>>
               : f \in DOMAIN tps[i] \ {"subtopics"}}
           \cup stringifySubtopics(prefix \o <<ToString(i), "subtopics">>,
                                   tps[i].subtopics)
           : i \in DOMAIN tps}

stringify(state) ==
    UNION {IF f = "topics" THEN stringifyTopics(<<"topics">>, state.topics)
           ELSE IF f = "sheet"
                THEN (IF state.sheet = NullSheet THEN {<<<<"sheet">>, "null">>}
                      ELSE {<<<<"sheet", g>>, state.sheet[g]>> : g \in DOMAIN state.sheet})
                ELSE {<<<<f>>, state[f]>>}
           : f \in DOMAIN state}

\* JSON.parse
HasLeaf(json, path) == \E e \in json : e[1] = path
Leaf(json, path) == (CHOOSE e \in json : e[1] = path)[2]
Members(json, prefix) ==
    {e[1][Len(prefix) + 1] : e \in {x \in json : /\ Len(x[1]) = Len(prefix) + 1
                                                   /\ SubSeq(x[1], 1, Len(prefix)) = prefix}}

parseQuestions(json, prefix) ==
    [k \in 1 .. Leaf(json, prefix \o <<"length">>) |->
        [f \in Members(json, prefix \o <<ToString(k)>>) |->
            Leaf(json, prefix \o <<ToString(k), f>>)]]

parseSubtopics(json, prefix) ==
    [j \in 1 .. Leaf(json, prefix \o <<"length">>) |->
        [f \in Members(json, prefix \o <<ToString(j)>>) \cup {"questions"} |->
            IF f = "questions"
            THEN parseQuestions(json, prefix \o <<ToString(j), "questions">>)
            ELSE Leaf(json, prefix \o <<ToString(j), f>>)]]

parseTopics(json, prefix) ==
    [i \in 1 .. Leaf(json, prefix \o <<"length">>) |->
        [f \in Members(json, prefix \o <<ToString(i)>>) \cup {"subtopics"} |->
            IF f = "subtopics"
            THEN parseSubtopics(json, prefix \o <<ToString(i), "subtopics">>)
            ELSE Leaf(json, prefix \o <<ToString(i), f>>)]]

parse(json) ==
    [f \in {e[1][1] : e \in json} |->
        IF f = "topics" THEN parseTopics(json, <<"topics">>)
        ELSE IF f = "sheet"
             THEN (IF HasLeaf(json, <<"sheet">>) THEN NullSheet
                   ELSE [g \in Members(json, <<"sheet">>) |-> Leaf(json, <<"sheet", g>>)])
             ELSE Leaf(json, <<f>>)]

\* what the persist middleware writes after a set(): the members chosen by
\* partialize; the storage holds them as written, and their serialization is
\* applied when the item is read back (hydrate)
persisted(tps, sh, eT, eS, th) == partialize(tps, sh, eT, eS, th)

\* the initial state of create(...)
InitialState ==
    [sheet |-> NullSheet, topics |-> <<>>, expandedTopics |-> EmptyMap,
     expandedSubtopics |-> EmptyMap, loading |-> TRUE, error |-> NoError,
     searchQuery |-> <<>>, filterDifficulty |-> FILTER_ALL,
     filterStatus |-> FILTER_ALL, theme |-> THEME_DARK, showStats |-> FALSE]

\* hydration: the persisted members replace those of the initial state
mergeState(state) ==
    [f \in DOMAIN InitialState |->
        IF f \in DOMAIN state THEN state[f] ELSE InitialState[f]]

hydrate(item) ==
    IF item = NoItem THEN InitialState ELSE mergeState(parse(stringify(item)))

Init ==
    /\ sheetData \in Docs
    /\ sheet = InitialState.sheet
    /\ topics = InitialState.topics
    /\ expandedTopics = InitialState.expandedTopics
    /\ expandedSubtopics = InitialState.expandedSubtopics
    /\ loading = InitialState.loading
    /\ error = InitialState.error
    /\ searchQuery = InitialState.searchQuery
    /\ filterDifficulty = InitialState.filterDifficulty
    /\ filterStatus = InitialState.filterStatus
    /\ theme = InitialState.theme
    /\ showStats = InitialState.showStats
    /\ storage = NoItem
    /\ pending = 0
    /\ mounting = TRUE
    /\ edits = 0
    /\ lastOp = Op("create", TRUE, FALSE)

\* ------------------------------------------------------------------------
\* Data loading
\* ------------------------------------------------------------------------

\* the body of fetchSheetData, on the variables of the tree and the storage
\* the try block and the catch block, r the outcome of transformSheetData
\* a catch block that sets the error and leaves loading as it is
setLoadedKeepLoading(r) ==
    IF r.ok
    THEN /\ sheet' = r.sheet
         /\ topics' = r.topics
         /\ loading' = FALSE
         /\ error' = NoError
         /\ storage' = persisted(r.topics, r.sheet, expandedTopics,
                                 expandedSubtopics, theme)
    ELSE /\ error' = r.message
         /\ loading' = TRUE
         /\ UNCHANGED <<sheet, topics>>
         /\ storage' = persisted(topics, sheet, expandedTopics,
                                 expandedSubtopics, theme)

setLoaded(r) ==
    IF r.ok
    THEN /\ sheet' = r.sheet
         /\ topics' = r.topics
         /\ loading' = FALSE
         /\ error' = NoError
         /\ storage' = persisted(r.topics, r.sheet, expandedTopics,
                                 expandedSubtopics, theme)
    ELSE /\ error' = r.message
         /\ loading' = FALSE
         /\ UNCHANGED <<sheet, topics>>
         /\ storage' = persisted(topics, sheet, expandedTopics,
                                 expandedSubtopics, theme)

\* a load that ingests the source whatever the store holds
fetchSheetDataAlways ==
    setLoaded(transformSheetData(sheetData,
                  DOMAIN expandedTopics \cup DOMAIN expandedSubtopics))

fetchSheetData ==
    IF Len(topics) > 0 /\ ~loading
    THEN UNCHANGED <<sheet, topics, loading, error, storage>>
    ELSE setLoaded(transformSheetData(sheetData,
                       DOMAIN expandedTopics \cup DOMAIN expandedSubtopics))

\* useEffect of App: fetchSheetData() once on mount
Mount ==
    /\ mounting
    /\ fetchSheetData
    /\ mounting' = FALSE
    /\ edits' = IF topics' = topics THEN edits ELSE 0
    /\ lastOp' = Op("fetchSheetData", TRUE, FALSE)
    /\ UNCHANGED <<sheetData, expandedTopics, expandedSubtopics, uiVars, pending>>

\* the Retry button of the error screen: onRetry={fetchSheetData}
Retry ==
    /\ ~mounting /\ ~loading /\ error # NoError
    /\ fetchSheetData
    /\ edits' = IF topics' = topics THEN edits ELSE 0
    /\ lastOp' = Op("fetchSheetData", TRUE, FALSE)
    /\ UNCHANGED <<sheetData, expandedTopics, expandedSubtopics, uiVars, pending, mounting>>

\* a reset that runs the re-ingest itself instead of scheduling it
resetProgressNow ==
    /\ transformSheetData(sheetData, {}).ok
    /\ topics # <<>>
    /\ setLoaded(transformSheetData(sheetData, {}))
    /\ edits' = 0
    /\ lastOp' = Op("resetProgress", TRUE, FALSE)
    /\ UNCHANGED <<sheetData, expandedTopics, expandedSubtopics, uiVars, mounting,
                   pending>>

\* a reset that schedules the re-ingest without clearing the store
resetProgressKeep ==
    /\ pending < MaxPending
    /\ storage' = NoItem
    /\ pending' = pending + 1
    /\ edits' = 0
    /\ lastOp' = Op("resetProgress", TRUE, FALSE)
    /\ UNCHANGED <<treeVars, sheetData, uiVars, mounting>>

resetProgress ==
    /\ pending < MaxPending
    /\ topics' = <<>>
    /\ sheet' = NullSheet
    /\ loading' = TRUE
    /\ error' = NoError
    /\ storage' = persisted(<<>>, NullSheet, expandedTopics, expandedSubtopics, theme)
    /\ pending' = pending + 1
    /\ edits' = 0
    /\ lastOp' = Op("resetProgress", TRUE, FALSE)
    /\ UNCHANGED <<sheetData, expandedTopics, expandedSubtopics, uiVars, mounting>>

\* the callback of setTimeout(() => get().fetchSheetData(), 0)
TimerFire ==
    /\ pending > 0
    /\ fetchSheetData
    /\ pending' = pending - 1
    /\ edits' = IF topics' = topics THEN edits ELSE 0
    /\ lastOp' = Op("timer", TRUE, FALSE)
    /\ UNCHANGED <<sheetData, expandedTopics, expandedSubtopics, uiVars, mounting>>

\* the page is reloaded: the store is created again and hydrated from the
\* storage; timers of the old page are gone
created(state) ==
    /\ sheet' = state.sheet
    /\ topics' = state.topics
    /\ expandedTopics' = state.expandedTopics
    /\ expandedSubtopics' = state.expandedSubtopics
    /\ loading' = state.loading
    /\ error' = state.error
    /\ searchQuery' = state.searchQuery
    /\ filterDifficulty' = state.filterDifficulty
    /\ filterStatus' = state.filterStatus
    /\ theme' = state.theme
    /\ showStats' = state.showStats

Restart ==
    /\ ~mounting
    /\ created(hydrate(storage))
    /\ pending' = 0
    /\ mounting' = TRUE
    /\ lastOp' = Op("create", TRUE, FALSE)
    /\ UNCHANGED <<sheetData, storage, edits>>

\* ------------------------------------------------------------------------
\* Mutators.  For each mutator, <name>_set is the value it passes to
\* set({ topics }), and <name> is the call: its early returns, the set and the
\* write of the persist middleware that follows every set.
\* ------------------------------------------------------------------------

MapSeq(array, f(_)) == [i \in DOMAIN array |-> f(array[i])]

\* a set of the topics that drops the sheet record
SetTopicsClearSheet(newTopics) ==
    /\ topics' = newTopics
    /\ sheet' = NullSheet
    /\ storage' = persisted(newTopics, NullSheet, expandedTopics, expandedSubtopics, theme)
    /\ UNCHANGED <<expandedTopics, expandedSubtopics, loading, error>>

\* set({ topics: newTopics })
SetTopics(newTopics) ==
    /\ topics' = newTopics
    /\ storage' = persisted(newTopics, sheet, expandedTopics, expandedSubtopics, theme)
    /\ UNCHANGED <<sheet, expandedTopics, expandedSubtopics, loading, error>>

\* return before any set
NoSet == UNCHANGED <<treeVars, storage>>

\* what a mutator leaves alone; a call that changes the tree is counted, and
\* is not made once MaxEdits calls have changed the tree
Frame ==
    /\ UNCHANGED <<sheetData, uiVars, pending, mounting>>
    /\ edits' = IF topics' = topics THEN edits ELSE edits + 1
    /\ edits' <= MaxEdits

HasTopic(tps, topicId) == \E t \in Range(tps) : t.id = topicId
HasSubtopic(tps, topicId, subtopicId) ==
    \E t \in Range(tps) : t.id = topicId /\ \E s \in Range(t.subtopics) : s.id = subtopicId
HasQuestion(tps, topicId, subtopicId, questionId) ==
    \E t \in Range(tps) : /\ t.id = topicId
                          /\ \E s \in Range(t.subtopics) :
                                /\ s.id = subtopicId
                                /\ \E q \in Range(s.questions) : q.id = questionId

updateTopicsNested(tps, topicId, subtopicId, questionId, updater(_)) ==
    LET onQuestion(q) == IF q.id = questionId THEN updater(q) ELSE q
        onSubtopic(subtopic) ==
            IF ~Falsy(subtopicId) /\ subtopic.id # subtopicId THEN subtopic
            ELSE IF questionId # Undefined
                 THEN [subtopic EXCEPT !.questions = MapSeq(subtopic.questions, onQuestion)]
                 ELSE updater(subtopic)
        onTopic(topic) ==
            IF ~Falsy(topicId) /\ topic.id # topicId THEN topic
            ELSE [topic EXCEPT !.subtopics = MapSeq(topic.subtopics, onSubtopic)]
    IN  MapSeq(tps, onTopic)

\* topics.map(topic => ({...topic, subtopics: topic.subtopics.map(subtopic =>
\*   ({...subtopic, questions: subtopic.questions.map(f)}))}))
mapQuestions(tps, f(_)) ==
    LET onSubtopic(subtopic) == [subtopic EXCEPT !.questions = MapSeq(subtopic.questions, f)]
        onTopic(topic) == [topic EXCEPT !.subtopics = MapSeq(topic.subtopics, onSubtopic)]
    IN  MapSeq(tps, onTopic)

\* topics.map(t => t.id !== topicId ? t : {...t, subtopics: f(t.subtopics)})
inTopic(tps, topicId, f(_)) ==
    LET onTopic(t) == IF t.id # topicId THEN t ELSE [t EXCEPT !.subtopics = f(t.subtopics)]
    IN  MapSeq(tps, onTopic)

\* ... subtopics: t.subtopics.map(s => s.id !== subtopicId ? s
\*                                     : {...s, questions: f(s.questions)})
inSubtopic(tps, topicId, subtopicId, f(_)) ==
    LET onSubtopic(s) == IF s.id # subtopicId THEN s ELSE [s EXCEPT !.questions = f(s.questions)]
        onSubtopics(subtopics) == MapSeq(subtopics, onSubtopic)
    IN  inTopic(tps, topicId, onSubtopics)

\* -- question actions ----------------------------------------------------

\* a toggle that marks the question solved instead of flipping the flag
toggleQuestionSolved_setSolved(tps, questionId) ==
    LET mark(q) == IF q.id = questionId THEN [q EXCEPT !.isSolved = TRUE] ELSE q
    IN  mapQuestions(tps, mark)

toggleQuestionSolved_set(tps, questionId) ==
    LET flip(q) == IF q.id = questionId THEN [q EXCEPT !.isSolved = ~q.isSolved] ELSE q
    IN  mapQuestions(tps, flip)

toggleQuestionSolved(questionId) ==
    /\ IF Falsy(questionId) THEN NoSet
       ELSE SetTopics(toggleQuestionSolved_set(topics, questionId))
    /\ lastOp' = Op("toggleQuestionSolved", questionId \in QuestionIds(topics), FALSE)
    /\ Frame

\* a check-all that flips every question of the subtopic
toggleAllInSubtopic_setFlip(tps, topicId, subtopicId, solved) ==
    LET mark(q) == [q EXCEPT !.isSolved = ~q.isSolved]
        all(subtopic) == [subtopic EXCEPT !.questions = MapSeq(subtopic.questions, mark)]
    IN  updateTopicsNested(tps, topicId, subtopicId, Undefined, all)

toggleAllInSubtopic_set(tps, topicId, subtopicId, solved) ==
    LET mark(q) == [q EXCEPT !.isSolved = (solved = "true")]
        all(subtopic) == [subtopic EXCEPT !.questions = MapSeq(subtopic.questions, mark)]
    IN  updateTopicsNested(tps, topicId, subtopicId, Undefined, all)

toggleAllInSubtopic(topicId, subtopicId, solved) ==
    /\ IF Falsy(topicId) \/ Falsy(subtopicId) THEN NoSet
       ELSE SetTopics(toggleAllInSubtopic_set(topics, topicId, subtopicId, solved))
    /\ lastOp' = Op("toggleAllInSubtopic", HasSubtopic(topics, topicId, subtopicId), FALSE)
    /\ Frame

\* a notes update that looks for the question under the first topic only
updateQuestionNotes_setFirstTopic(tps, questionId, notes) ==
    LET note(q) == IF q.id = questionId
                   THEN [q EXCEPT !.notes = sanitizeString(notes, <<>>)] ELSE q
    IN  [i \in DOMAIN tps |->
            IF i = 1 THEN mapQuestions(<<tps[i]>>, note)[1] ELSE tps[i]]

updateQuestionNotes_set(tps, questionId, notes) ==
    LET note(q) == IF q.id = questionId
                   THEN [q EXCEPT !.notes = sanitizeString(notes, <<>>)] ELSE q
    IN  mapQuestions(tps, note)

updateQuestionNotes(questionId, notes) ==
    /\ IF Falsy(questionId) THEN NoSet
       ELSE SetTopics(updateQuestionNotes_set(topics, questionId, notes))
    /\ lastOp' = Op("updateQuestionNotes", questionId \in QuestionIds(topics), FALSE)
    /\ Frame

\* -- topic CRUD ----------------------------------------------------------

addTopic_set(tps, sanitizedName, id) ==
    Append(tps, [id |-> id, name |-> sanitizedName, order |-> Len(tps), subtopics |-> <<>>])

addTopic(name) ==
    /\ IF sanitizeString(name, <<>>) = <<>> THEN NoSet
       ELSE /\ HasFreshUuid
            /\ SetTopics(addTopic_set(topics, sanitizeString(name, <<>>),
                                      generateId("topic", FreshUuid(IdsInUse, UserUuids))))
    /\ lastOp' = Op("addTopic", sanitizeString(name, <<>>) # <<>>, FALSE)
    /\ Frame

\* a rename that puts a topic without subtopics in the place of the topic
updateTopic_setNew(tps, topicId, sanitizedName) ==
    LET rename(t) == IF t.id = topicId
                     THEN [id |-> t.id, name |-> sanitizedName, order |-> t.order,
                           subtopics |-> <<>>]
                     ELSE t
    IN  MapSeq(tps, rename)

updateTopic_set(tps, topicId, sanitizedName) ==
    LET rename(t) == IF t.id = topicId THEN [t EXCEPT !.name = sanitizedName] ELSE t
    IN  MapSeq(tps, rename)

updateTopic(topicId, name) ==
    /\ IF Falsy(topicId) \/ sanitizeString(name, <<>>) = <<>> THEN NoSet
       ELSE SetTopics(updateTopic_set(topics, topicId, sanitizeString(name, <<>>)))
    /\ lastOp' = Op("updateTopic",
                    HasTopic(topics, topicId) /\ sanitizeString(name, <<>>) # <<>>, FALSE)
    /\ Frame

deleteTopic_set(tps, topicId) == filterOutId(tps, topicId)

\* a delete that collapses the entry and keeps it
deleteKeyCollapse(map, key) ==
    [k \in DOMAIN map |-> IF k = key THEN FALSE ELSE map[k]]

\* delete newExpanded[key]
deleteKey(map, key) == [k \in DOMAIN map \ {key} |-> map[k]]

deleteTopic(topicId) ==
    /\ IF Falsy(topicId) THEN NoSet
       ELSE /\ topics' = deleteTopic_set(topics, topicId)
            /\ expandedTopics' = deleteKey(expandedTopics, topicId)
            /\ storage' = persisted(topics', sheet, expandedTopics', expandedSubtopics, theme)
            /\ UNCHANGED <<sheet, expandedSubtopics, loading, error>>
    /\ lastOp' = Op("deleteTopic", HasTopic(topics, topicId), FALSE)
    /\ Frame

\* -- subtopic CRUD -------------------------------------------------------

\* an add that puts the new subtopic before its siblings
addSubtopic_setFirst(tps, topicId, sanitizedName, id) ==
    LET push(subtopics) ==
            <<[id |-> id, name |-> sanitizedName,
               order |-> Len(subtopics), questions |-> <<>>]>> \o subtopics
    IN  inTopic(tps, topicId, push)

addSubtopic_set(tps, topicId, sanitizedName, id) ==
    LET push(subtopics) ==
            Append(subtopics, [id |-> id, name |-> sanitizedName,
                               order |-> Len(subtopics), questions |-> <<>>])
    IN  inTopic(tps, topicId, push)

addSubtopic(topicId, name) ==
    /\ IF Falsy(topicId) \/ sanitizeString(name, <<>>) = <<>> THEN NoSet
       ELSE /\ HasFreshUuid
            /\ SetTopics(addSubtopic_set(topics, topicId, sanitizeString(name, <<>>),
                                         generateId("subtopic", FreshUuid(IdsInUse, UserUuids))))
    /\ lastOp' = Op("addSubtopic",
                    HasTopic(topics, topicId) /\ sanitizeString(name, <<>>) # <<>>, FALSE)
    /\ Frame

updateSubtopic_set(tps, topicId, subtopicId, sanitizedName) ==
    LET rename(s) == IF s.id = subtopicId THEN [s EXCEPT !.name = sanitizedName] ELSE s
        renameIn(subtopics) == MapSeq(subtopics, rename)
    IN  inTopic(tps, topicId, renameIn)

updateSubtopic(topicId, subtopicId, name) ==
    /\ IF Falsy(topicId) \/ Falsy(subtopicId) \/ sanitizeString(name, <<>>) = <<>> THEN NoSet
       ELSE SetTopics(updateSubtopic_set(topics, topicId, subtopicId,
                                         sanitizeString(name, <<>>)))
    /\ lastOp' = Op("updateSubtopic",
                    HasSubtopic(topics, topicId, subtopicId)
                        /\ sanitizeString(name, <<>>) # <<>>, FALSE)
    /\ Frame

deleteSubtopic_set(tps, topicId, subtopicId) ==
    LET remove(subtopics) == filterOutId(subtopics, subtopicId)
    IN  inTopic(tps, topicId, remove)

deleteSubtopic(topicId, subtopicId) ==
    /\ IF Falsy(topicId) \/ Falsy(subtopicId) THEN NoSet
       ELSE /\ topics' = deleteSubtopic_set(topics, topicId, subtopicId)
            /\ expandedSubtopics' = deleteKey(expandedSubtopics, subtopicId)
            /\ storage' = persisted(topics', sheet, expandedTopics, expandedSubtopics', theme)
            /\ UNCHANGED <<sheet, expandedTopics, loading, error>>
    /\ lastOp' = Op("deleteSubtopic", HasSubtopic(topics, topicId, subtopicId), FALSE)
    /\ Frame

\* -- question CRUD -------------------------------------------------------

\* questionData: an object with title, difficulty and url (a member that is
\* absent is undefined), or undefined
NoData == [isUndefined |-> TRUE]
UndefinedLabel == "undefined"

\* !!x for a title; !!x for a difficulty label
Truthy(x) == x # Undefined /\ x # <<>>
TruthyLabel(x) == x # UndefinedLabel /\ x # ""

addQuestion_set(tps, topicId, subtopicId, title, questionData, id) ==
    LET push(questions) ==
            Append(questions, [id |-> id,
                               title |-> title,
                               difficulty |-> validateDifficulty(questionData.difficulty),
                               url |-> validateUrl(questionData.url),
                               isSolved |-> FALSE,
                               order |-> Len(questions),
                               notes |-> <<>>])
    IN  inSubtopic(tps, topicId, subtopicId, push)

addQuestion(topicId, subtopicId, questionData) ==
    /\ IF Falsy(topicId) \/ Falsy(subtopicId) \/ questionData = NoData THEN NoSet
       ELSE IF sanitizeString(questionData.title, <<>>) = <<>> THEN NoSet
       ELSE /\ HasFreshUuid
            /\ SetTopics(addQuestion_set(topics, topicId, subtopicId,
                                         sanitizeString(questionData.title, <<>>), questionData,
                                         generateId("question", FreshUuid(IdsInUse, UserUuids))))
    /\ lastOp' = Op("addQuestion",
                    /\ HasSubtopic(topics, topicId, subtopicId)
                    /\ questionData # NoData
                    /\ sanitizeString(questionData.title, <<>>) # <<>>, FALSE)
    /\ Frame

\* an update that validates the difficulty of questionData even when it is absent
updateQuestion_setCoerce(tps, topicId, subtopicId, questionId, questionData) ==
    LET merge(q) ==
            IF q.id # questionId THEN q
            ELSE [q EXCEPT
                    !.title = IF Truthy(questionData.title)
                              THEN sanitizeString(questionData.title, <<>>) ELSE @,
                    !.difficulty = validateDifficulty(questionData.difficulty),
                    !.url = IF questionData.url # Undefined
                            THEN validateUrl(questionData.url) ELSE @]
        mergeIn(questions) == MapSeq(questions, merge)
    IN  inSubtopic(tps, topicId, subtopicId, mergeIn)

updateQuestion_set(tps, topicId, subtopicId, questionId, questionData) ==
    LET merge(q) ==
            IF q.id # questionId THEN q
            ELSE [q EXCEPT
                    !.title = IF Truthy(questionData.title)
                              THEN sanitizeString(questionData.title, <<>>) ELSE @,
                    !.difficulty = IF TruthyLabel(questionData.difficulty)
                                   THEN validateDifficulty(questionData.difficulty) ELSE @,
                    !.url = IF questionData.url # Undefined
                            THEN validateUrl(questionData.url) ELSE @]
        mergeIn(questions) == MapSeq(questions, merge)
    IN  inSubtopic(tps, topicId, subtopicId, mergeIn)

updateQuestion(topicId, subtopicId, questionId, questionData) ==
    /\ IF Falsy(topicId) \/ Falsy(subtopicId) \/ Falsy(questionId) \/ questionData = NoData
       THEN NoSet
       ELSE SetTopics(updateQuestion_set(topics, topicId, subtopicId, questionId, questionData))
    /\ lastOp' = Op("updateQuestion",
                    HasQuestion(topics, topicId, subtopicId, questionId)
                        /\ questionData # NoData, FALSE)
    /\ Frame

\* a delete that numbers the questions that are left from 0
deleteQuestion_setRenumber(tps, topicId, subtopicId, questionId) ==
    LET remove(questions) ==
            [k \in DOMAIN filterOutId(questions, questionId) |->
                [filterOutId(questions, questionId)[k] EXCEPT !.order = k - 1]]
    IN  inSubtopic(tps, topicId, subtopicId, remove)

deleteQuestion_set(tps, topicId, subtopicId, questionId) ==
    LET remove(questions) == filterOutId(questions, questionId)
    IN  inSubtopic(tps, topicId, subtopicId, remove)

deleteQuestion(topicId, subtopicId, questionId) ==
    /\ IF Falsy(topicId) \/ Falsy(subtopicId) \/ Falsy(questionId) THEN NoSet
       ELSE SetTopics(deleteQuestion_set(topics, topicId, subtopicId, questionId))
    /\ lastOp' = Op("deleteQuestion",
                    HasQuestion(topics, topicId, subtopicId, questionId), FALSE)
    /\ Frame

\* -- reorder actions ------------------------------------------------------

\* the group a reorder call addresses, <<>> when the parent does not exist
SubtopicsOf(tps, topicId) ==
    IF HasTopic(tps, topicId)
    THEN (CHOOSE t \in Range(tps) : t.id = topicId).subtopics ELSE <<>>

QuestionsOf(tps, topicId, subtopicId) ==
    IF HasSubtopic(tps, topicId, subtopicId)
    THEN (CHOOSE s \in Range(SubtopicsOf(tps, topicId)) : s.id = subtopicId).questions
    ELSE <<>>

\* both ids are in the group and they differ
Movable(group, activeId, overId) ==
    /\ activeId # overId
    /\ findIndex(group, activeId) # -1
    /\ findIndex(group, overId) # -1

\* a move that leaves the `order` members as they were
reorderTopics_setKeepOrder(tps, activeId, overId) ==
    spliceInsert(spliceRemove(tps, findIndex(tps, activeId)),
                 findIndex(tps, overId), tps[findIndex(tps, activeId) + 1])

reorderTopics_set(tps, activeId, overId) ==
    reorderArray(tps, findIndex(tps, activeId), findIndex(tps, overId))

reorderTopics(activeId, overId) ==
    /\ IF Falsy(activeId) \/ Falsy(overId) \/ activeId = overId THEN NoSet
       ELSE IF findIndex(topics, activeId) # -1 /\ findIndex(topics, overId) # -1
            THEN SetTopics(reorderTopics_set(topics, activeId, overId))
            ELSE NoSet
    /\ lastOp' = Op("reorderTopics", Movable(topics, activeId, overId), ~Dense(topics))
    /\ Frame

reorderSubtopics_set(tps, topicId, activeId, overId) ==
    LET move(subtopics) ==
            IF findIndex(subtopics, activeId) = -1 \/ findIndex(subtopics, overId) = -1
            THEN subtopics
            ELSE reorderArray(subtopics, findIndex(subtopics, activeId),
                              findIndex(subtopics, overId))
    IN  inTopic(tps, topicId, move)

reorderSubtopics(topicId, activeId, overId) ==
    /\ IF Falsy(topicId) \/ Falsy(activeId) \/ Falsy(overId) \/ activeId = overId THEN NoSet
       ELSE SetTopics(reorderSubtopics_set(topics, topicId, activeId, overId))
    /\ lastOp' = Op("reorderSubtopics",
                    Movable(SubtopicsOf(topics, topicId), activeId, overId),
                    ~Dense(SubtopicsOf(topics, topicId)))
    /\ Frame

\* a reorder that renumbers the group also when an id is not in it
reorderQuestions_setAlways(tps, topicId, subtopicId, activeId, overId) ==
    LET move(questions) ==
            IF findIndex(questions, activeId) = -1 \/ findIndex(questions, overId) = -1
            THEN [index \in 1 .. Len(questions) |->
                     [questions[index] EXCEPT !.order = index - 1]]
            ELSE reorderArray(questions, findIndex(questions, activeId),
                              findIndex(questions, overId))
    IN  inSubtopic(tps, topicId, subtopicId, move)

reorderQuestions_set(tps, topicId, subtopicId, activeId, overId) ==
    LET move(questions) ==
            IF findIndex(questions, activeId) = -1 \/ findIndex(questions, overId) = -1
            THEN questions
            ELSE reorderArray(questions, findIndex(questions, activeId),
                              findIndex(questions, overId))
    IN  inSubtopic(tps, topicId, subtopicId, move)

reorderQuestions(topicId, subtopicId, activeId, overId) ==
    /\ IF Falsy(topicId) \/ Falsy(subtopicId) \/ Falsy(activeId) \/ Falsy(overId)
          \/ activeId = overId
       THEN NoSet
       ELSE SetTopics(reorderQuestions_set(topics, topicId, subtopicId, activeId, overId))
    /\ lastOp' = Op("reorderQuestions",
                    Movable(QuestionsOf(topics, topicId, subtopicId), activeId, overId),
                    ~Dense(QuestionsOf(topics, topicId, subtopicId)))
    /\ Frame

\* ------------------------------------------------------------------------
\* UI state actions.  Each is one set, followed by the write of the persist
\* middleware; none touches the tree.
\* ------------------------------------------------------------------------

\* a bound on the keys the two expansion maps hold together
MaxExpanded == 2

UiFrame == UNCHANGED <<sheetData, sheet, topics, loading, error, pending, mounting, edits>>

Expanded(map, key) == key \in DOMAIN map /\ map[key]

\* { ...map, [key]: !map[key] }
toggleKey(map, key) ==
    [k \in DOMAIN map \cup {key} |-> IF k = key THEN ~Expanded(map, key) ELSE map[k]]

toggleTopicExpansion(topicId) ==
    /\ IF Falsy(topicId) THEN UNCHANGED <<expandedTopics, storage>>
       ELSE /\ expandedTopics' = toggleKey(expandedTopics, topicId)
            /\ storage' = persisted(topics, sheet, expandedTopics', expandedSubtopics, theme)
    /\ Cardinality(DOMAIN expandedTopics') + Cardinality(DOMAIN expandedSubtopics) <= MaxExpanded
    /\ lastOp' = Op("toggleTopicExpansion", HasTopic(topics, topicId), FALSE)
    /\ UNCHANGED <<expandedSubtopics, uiVars>>
    /\ UiFrame

toggleSubtopicExpansion(subtopicId) ==
    /\ IF Falsy(subtopicId) THEN UNCHANGED <<expandedSubtopics, storage>>
       ELSE /\ expandedSubtopics' = toggleKey(expandedSubtopics, subtopicId)
            /\ storage' = persisted(topics, sheet, expandedTopics, expandedSubtopics', theme)
    /\ Cardinality(DOMAIN expandedTopics) + Cardinality(DOMAIN expandedSubtopics') <= MaxExpanded
    /\ lastOp' = Op("toggleSubtopicExpansion", subtopicId \in SubtopicIds(topics), FALSE)
    /\ UNCHANGED <<expandedTopics, uiVars>>
    /\ UiFrame

\* Object.fromEntries(topics.map(t => [t.id, true]))
expandAllTopics ==
    /\ expandedTopics' = [k \in TopicIds(topics) |-> TRUE]
    /\ Cardinality(DOMAIN expandedTopics') + Cardinality(DOMAIN expandedSubtopics) <= MaxExpanded
    /\ storage' = persisted(topics, sheet, expandedTopics', expandedSubtopics, theme)
    /\ lastOp' = Op("expandAllTopics", TRUE, FALSE)
    /\ UNCHANGED <<expandedSubtopics, uiVars>>
    /\ UiFrame

collapseAllTopics ==
    /\ expandedTopics' = EmptyMap
    /\ storage' = persisted(topics, sheet, expandedTopics', expandedSubtopics, theme)
    /\ lastOp' = Op("collapseAllTopics", TRUE, FALSE)
    /\ UNCHANGED <<expandedSubtopics, uiVars>>
    /\ UiFrame

\* a set of a field that is not persisted still runs the write of persist
SetUi == /\ storage' = persisted(topics, sheet, expandedTopics, expandedSubtopics, theme)
         /\ UNCHANGED <<expandedTopics, expandedSubtopics>>
         /\ UiFrame

setSearchQuery(query) ==
    /\ searchQuery' = IF query \in NotAString THEN <<>> ELSE query
    /\ lastOp' = Op("setSearchQuery", query \notin NotAString, FALSE)
    /\ UNCHANGED <<filterDifficulty, filterStatus, theme, showStats>>
    /\ SetUi

setFilterDifficulty(difficulty) ==
    /\ filterDifficulty' = IF TruthyLabel(difficulty) THEN difficulty ELSE FILTER_ALL
    /\ lastOp' = Op("setFilterDifficulty", TruthyLabel(difficulty), FALSE)
    /\ UNCHANGED <<searchQuery, filterStatus, theme, showStats>>
    /\ SetUi

setFilterStatus(status) ==
    /\ filterStatus' = IF TruthyLabel(status) THEN status ELSE FILTER_ALL
    /\ lastOp' = Op("setFilterStatus", TruthyLabel(status), FALSE)
    /\ UNCHANGED <<searchQuery, filterDifficulty, theme, showStats>>
    /\ SetUi

toggleTheme ==
    /\ theme' = IF theme = THEME_DARK THEN THEME_LIGHT ELSE THEME_DARK
    /\ storage' = persisted(topics, sheet, expandedTopics, expandedSubtopics, theme')
    /\ lastOp' = Op("toggleTheme", TRUE, FALSE)
    /\ UNCHANGED <<searchQuery, filterDifficulty, filterStatus, showStats,
                   expandedTopics, expandedSubtopics>>
    /\ UiFrame

toggleStats ==
    /\ showStats' = ~showStats
    /\ lastOp' = Op("toggleStats", TRUE, FALSE)
    /\ UNCHANGED <<searchQuery, filterDifficulty, filterStatus, theme>>
    /\ SetUi

\* ------------------------------------------------------------------------
\* Selector functions
\* ------------------------------------------------------------------------

\* the questions the two nested loops visit, in the order they visit them
RECURSIVE flatQuestions(_)
flatQuestions(subtopics) ==
    IF subtopics = <<>> THEN <<>>
    ELSE subtopics[1].questions \o flatQuestions(Tail(subtopics))

RECURSIVE flatTopics(_)
flatTopics(tps) ==
    IF tps = <<>> THEN <<>>
    ELSE flatQuestions(tps[1].subtopics) \o flatTopics(Tail(tps))

\* the value of a counter after the loop: the number of questions visited
\* for which it was incremented (difficulty "" stands for every bucket)
tally(questions, difficulty, solvedOnly) ==
    Cardinality({k \in DOMAIN questions :
                    /\ difficulty = "" \/ validateDifficulty(questions[k].difficulty) = difficulty
                    /\ solvedOnly => questions[k].isSolved})

\* a percentage that is cut off instead of rounded
percentageFloor(solved, total) == IF total > 0 THEN (100 * solved) \div total ELSE 0

\* Math.round((solved / total) * 100)
percentage(solved, total) == IF total > 0 THEN (200 * solved + total) \div (2 * total) ELSE 0

calculateTotalProgress(tps) ==
    [total |-> tally(flatTopics(tps), "", FALSE),
     solved |-> tally(flatTopics(tps), "", TRUE),
     percentage |-> percentage(tally(flatTopics(tps), "", TRUE),
                               tally(flatTopics(tps), "", FALSE))]

\* statistics that count every question of a difficulty as solved
calculateDetailedStatsAllSolved(tps) ==
    [total |-> tally(flatTopics(tps), "", FALSE),
     solved |-> tally(flatTopics(tps), "", TRUE),
     byDifficulty |-> [d \in DIFFICULTY_LEVELS |->
                          [total |-> tally(flatTopics(tps), d, FALSE),
                           solved |-> tally(flatTopics(tps), d, FALSE)]],
     byTopic |-> [i \in DOMAIN tps |->
                     [name |-> tps[i].name,
                      total |-> tally(flatQuestions(tps[i].subtopics), "", FALSE),
                      solved |-> tally(flatQuestions(tps[i].subtopics), "", TRUE)]]]

calculateDetailedStats(tps) ==
    [total |-> tally(flatTopics(tps), "", FALSE),
     solved |-> tally(flatTopics(tps), "", TRUE),
     byDifficulty |-> [d \in DIFFICULTY_LEVELS |->
                          [total |-> tally(flatTopics(tps), d, FALSE),
                           solved |-> tally(flatTopics(tps), d, TRUE)]],
     byTopic |-> [i \in DOMAIN tps |->
                     [name |-> tps[i].name,
                      total |-> tally(flatQuestions(tps[i].subtopics), "", FALSE),
                      solved |-> tally(flatQuestions(tps[i].subtopics), "", TRUE)]]]

\* String.prototype.toLowerCase, on the letters that occur
toLowerCase(s) ==
    [i \in DOMAIN s |-> CASE s[i] = "A" -> "a" [] s[i] = "B" -> "b" [] s[i] = "N" -> "n"
                          [] s[i] = "T" -> "t" [] s[i] = "U" -> "u" [] OTHER -> s[i]]

\* String.prototype.includes
includes(s, t) == \E i \in 0..(Len(s) - Len(t)) : SubSeq(s, i + 1, i + Len(t)) = t

\* a filter that compares the title as it is written with the lower-cased search
filterQuestionsExactCase(questions, query, difficulty, status) ==
    LET normalizedSearch == trim(toLowerCase(IF Falsy(query) THEN <<>> ELSE query))
        keep(q) ==
            /\ ~(normalizedSearch # <<>> /\ ~includes(q.title, normalizedSearch))
            /\ ~(TruthyLabel(difficulty) /\ difficulty # FILTER_ALL /\ q.difficulty # difficulty)
            /\ ~(status = FILTER_SOLVED /\ ~q.isSolved)
            /\ ~(status = FILTER_UNSOLVED /\ q.isSolved)
    IN  SelectSeq(questions, keep)

\* a filter that numbers the questions it returns from 0
filterQuestionsRenumber(questions, query, difficulty, status) ==
    LET normalizedSearch == trim(toLowerCase(IF Falsy(query) THEN <<>> ELSE query))
        keep(q) ==
            /\ ~(normalizedSearch # <<>> /\ ~includes(toLowerCase(q.title), normalizedSearch))
            /\ ~(TruthyLabel(difficulty) /\ difficulty # FILTER_ALL /\ q.difficulty # difficulty)
            /\ ~(status = FILTER_SOLVED /\ ~q.isSolved)
            /\ ~(status = FILTER_UNSOLVED /\ q.isSolved)
        kept == SelectSeq(questions, keep)
    IN  [i \in DOMAIN kept |-> [kept[i] EXCEPT !.order = i - 1]]

filterQuestions(questions, query, difficulty, status) ==
    LET normalizedSearch == trim(toLowerCase(IF Falsy(query) THEN <<>> ELSE query))
        keep(q) ==
            /\ ~(normalizedSearch # <<>> /\ ~includes(toLowerCase(q.title), normalizedSearch))
            /\ ~(TruthyLabel(difficulty) /\ difficulty # FILTER_ALL /\ q.difficulty # difficulty)
            /\ ~(status = FILTER_SOLVED /\ ~q.isSolved)
            /\ ~(status = FILTER_UNSOLVED /\ q.isSolved)
    IN  SelectSeq(questions, keep)

\* ------------------------------------------------------------------------
\* The application: which calls can be made in which state
\* ------------------------------------------------------------------------

\* App renders the loading screen while loading and the error screen while
\* error is set; the lists, the header and the modal, whose handlers call the
\* mutators and resetProgress, are rendered only otherwise
MainView == ~mounting /\ ~loading /\ error = NoError

\* Arguments of the calls.  An id argument is an id of the tree, an id that is
\* not in the tree, or a falsy id.  Every call with existing targets is made,
\* and for each of them calls with one argument replaced by a bad id or by
\* the id of another parent.
NoSuchId == <<"z">>
BadIds == {<<>>, NoSuchId}
ValidName == <<" ", "x">>
NameArgs == {<<" ">>, ValidName, Undefined}
ValidData == [title |-> <<"x", " ">>, difficulty |-> "Hard", url |-> <<"http", "x">>]
QuestionDataArgs ==
    {NoData, ValidData, [title |-> <<" ">>, difficulty |-> "hard", url |-> Undefined]}

\* <<topicId, subtopicId>> of every subtopic, and the pairs that replace one
\* of the two ids
RealScopes(tps) ==
    {sc \in TopicIds(tps) \X SubtopicIds(tps) : HasSubtopic(tps, sc[1], sc[2])}
BadScopesOf(tps, sc) ==
    {<<x, sc[2]>> : x \in (TopicIds(tps) \cup BadIds) \ {sc[1]}}
        \cup {<<sc[1], y>> : y \in BadIds}
BadScopes(tps) == UNION {BadScopesOf(tps, sc) : sc \in RealScopes(tps)} \ RealScopes(tps)

\* <<activeId, overId>> for a group: every pair of its ids, and its first id
\* with an absent and with a falsy id
PairArgs(group) ==
    IF group = <<>> THEN {}
    ELSE (Range(Ids(group)) \X Range(Ids(group)))
             \cup {<<group[1].id, NoSuchId>>, <<NoSuchId, group[1].id>>,
                   <<group[1].id, <<>> >>, << <<>>, group[1].id>>}

\* the pair <<first id, last id>> of a group
OnePair(group) == IF group = <<>> THEN {} ELSE {<<group[1].id, group[Len(group)].id>>}
OneId(group) == IF group = <<>> THEN {} ELSE {group[1].id}

AddSubtopicArgs(tps) == (TopicIds(tps) \X NameArgs) \cup (BadIds \X {ValidName})

DeleteSubtopicArgs(tps) == RealScopes(tps) \cup BadScopes(tps)

ReorderSubtopicsArgs(tps) ==
    UNION {{<<t, pr[1], pr[2]>> : pr \in PairArgs(SubtopicsOf(tps, t))}
           \cup {<<x, pr[1], pr[2]>> : x \in (TopicIds(tps) \cup BadIds) \ {t},
                                      pr \in OnePair(SubtopicsOf(tps, t))}
           : t \in TopicIds(tps)}

AddQuestionArgs(tps) ==
    {<<sc[1], sc[2], d>> : sc \in RealScopes(tps), d \in QuestionDataArgs}
        \cup {<<sc[1], sc[2], ValidData>> : sc \in BadScopes(tps)}

DeleteQuestionArgs(tps) ==
    UNION {{<<sc[1], sc[2], q>> :
               q \in Range(Ids(QuestionsOf(tps, sc[1], sc[2]))) \cup BadIds}
           \cup {<<b[1], b[2], q>> : b \in BadScopesOf(tps, sc) \ RealScopes(tps),
                                     q \in OneId(QuestionsOf(tps, sc[1], sc[2]))}
           : sc \in RealScopes(tps)}

ReorderQuestionsArgs(tps) ==
    UNION {{<<sc[1], sc[2], pr[1], pr[2]>> :
               pr \in PairArgs(QuestionsOf(tps, sc[1], sc[2]))}
           \cup {<<b[1], b[2], pr[1], pr[2]>> :
                    b \in BadScopesOf(tps, sc) \ RealScopes(tps),
                    pr \in OnePair(QuestionsOf(tps, sc[1], sc[2]))}
           : sc \in RealScopes(tps)}

AddTopicCall == MainView /\ \E name \in NameArgs : addTopic(name)
DeleteTopicCall ==
    MainView /\ \E topicId \in TopicIds(topics) \cup BadIds : deleteTopic(topicId)
ReorderTopicsCall ==
    MainView /\ \E pr \in PairArgs(topics) : reorderTopics(pr[1], pr[2])
AddSubtopicCall ==
    MainView /\ \E a \in AddSubtopicArgs(topics) : addSubtopic(a[1], a[2])
DeleteSubtopicCall ==
    MainView /\ \E a \in DeleteSubtopicArgs(topics) : deleteSubtopic(a[1], a[2])
ReorderSubtopicsCall ==
    MainView /\ \E a \in ReorderSubtopicsArgs(topics) : reorderSubtopics(a[1], a[2], a[3])
AddQuestionCall ==
    MainView /\ \E a \in AddQuestionArgs(topics) : addQuestion(a[1], a[2], a[3])
DeleteQuestionCall ==
    MainView /\ \E a \in DeleteQuestionArgs(topics) : deleteQuestion(a[1], a[2], a[3])
ReorderQuestionsCall ==
    MainView /\ \E a \in ReorderQuestionsArgs(topics) :
                    reorderQuestions(a[1], a[2], a[3], a[4])
ResetCall == MainView /\ resetProgress

Next ==
    \/ Mount
    \/ Retry
    \/ TimerFire
    \/ ResetCall
    \/ AddTopicCall
    \/ DeleteTopicCall
    \/ ReorderTopicsCall
    \/ AddSubtopicCall
    \/ DeleteSubtopicCall
    \/ ReorderSubtopicsCall
    \/ AddQuestionCall
    \/ DeleteQuestionCall
    \/ ReorderQuestionsCall

Spec == Init /\ [][Next]_vars

\* The calls the rendered lists and the modal make: every mutator with the ids
\* of entities of the tree and a valid input, among them the edits of fields of
\* existing entities (the checkbox of a question, its notes, the name of a topic)
NoteArg == <<"n">>
Edit ==
    /\ MainView
    /\ \/ addTopic(ValidName)
       \/ \E topicId \in TopicIds(topics) :
             \/ deleteTopic(topicId)
             \/ updateTopic(topicId, ValidName)
             \/ addSubtopic(topicId, ValidName)
             \/ \E overId \in TopicIds(topics) \ {topicId} : reorderTopics(topicId, overId)
       \/ \E sc \in RealScopes(topics) :
             \/ deleteSubtopic(sc[1], sc[2])
             \/ addQuestion(sc[1], sc[2], ValidData)
             \/ \E overId \in Range(Ids(SubtopicsOf(topics, sc[1]))) \ {sc[2]} :
                   reorderSubtopics(sc[1], sc[2], overId)
             \/ \E questionId \in Range(Ids(QuestionsOf(topics, sc[1], sc[2]))) :
                   \/ deleteQuestion(sc[1], sc[2], questionId)
                   \/ toggleQuestionSolved(questionId)
                   \/ updateQuestionNotes(questionId, NoteArg)
                   \/ \E overId \in Range(Ids(QuestionsOf(topics, sc[1], sc[2])))
                                       \ {questionId} :
                         reorderQuestions(sc[1], sc[2], questionId, overId)

NextEdits ==
    \/ Mount
    \/ Retry
    \/ TimerFire
    \/ ResetCall
    \/ Edit

\* a timer that is due runs: setTimeout(f, 0) calls f once the current task ends
SpecReset == Init /\ [][NextEdits]_vars /\ WF_vars(TimerFire)

\* The star button of a question row: the component reads
\* state.toggleQuestionStarred, which the store does not define, and the click
\* handler calls it.  The call of undefined throws a TypeError before any set.
StarClick(questionId) ==
    /\ lastOp' = Op("toggleQuestionStarred", questionId \in QuestionIds(topics), FALSE)
    /\ UNCHANGED <<treeVars, uiVars, storage, sheetData, pending, mounting, edits>>

StarCall == MainView /\ \E questionId \in QuestionIds(topics) : StarClick(questionId)

\* the chevrons of the rows and the expand all / collapse all buttons
ExpansionCall ==
    /\ MainView
    /\ \/ \E topicId \in TopicIds(topics) : toggleTopicExpansion(topicId)
       \/ \E subtopicId \in SubtopicIds(topics) : toggleSubtopicExpansion(subtopicId)
       \/ expandAllTopics
       \/ collapseAllTopics

\* Calls of the mutators with valid input whose ids address nothing: one id
\* falsy or absent from the tree, or the id of an entity together with the id
\* of a parent it is not under
MisuseCall ==
    /\ MainView
    /\ \/ \E b \in BadIds :
             \/ toggleQuestionSolved(b)
             \/ updateQuestionNotes(b, NoteArg)
             \/ updateTopic(b, ValidName)
             \/ deleteTopic(b)
             \/ addSubtopic(b, ValidName)
             \/ \E t \in OneId(topics) : reorderTopics(t, b) \/ reorderTopics(b, t)
       \/ \E sc \in BadScopes(topics) :
             \/ toggleAllInSubtopic(sc[1], sc[2], "true")
             \/ updateSubtopic(sc[1], sc[2], ValidName)
             \/ deleteSubtopic(sc[1], sc[2])
             \/ addQuestion(sc[1], sc[2], ValidData)
             \/ \E t \in OneId(topics) : reorderSubtopics(sc[1], sc[2], t)
       \/ \E sc \in RealScopes(topics) :
             \/ \E b \in BadIds :
                   \/ updateQuestion(sc[1], sc[2], b, ValidData)
                   \/ deleteQuestion(sc[1], sc[2], b)
                   \/ \E q \in OneId(QuestionsOf(topics, sc[1], sc[2])) :
                         reorderQuestions(sc[1], sc[2], q, b)
             \/ \E b \in BadScopesOf(topics, sc) \ RealScopes(topics),
                   q \in OneId(QuestionsOf(topics, sc[1], sc[2])) :
                   \/ updateQuestion(b[1], b[2], q, ValidData)
                   \/ deleteQuestion(b[1], b[2], q)
                   \/ reorderQuestions(b[1], b[2], q, q)

NextList ==
    \/ Mount
    \/ Retry
    \/ ExpansionCall
    \/ StarCall
    \/ MisuseCall

SpecList == Init /\ [][NextList]_vars

\* The forms.  The modal's edit-question form calls updateQuestion with the
\* trimmed fields of the form, notes among them, when the title is not blank
\* and the ids of the question are there; nothing is called otherwise.
submitEditQuestion(topicId, subtopicId, questionId, formData) ==
    IF trim(formData.title) # <<>> /\ ~Falsy(topicId) /\ ~Falsy(subtopicId) /\ ~Falsy(questionId)
    THEN updateQuestion(topicId, subtopicId, questionId,
                        [title |-> trim(formData.title),
                         difficulty |-> formData.difficulty,
                         url |-> trim(formData.url),
                         notes |-> trim(formData.notes)])
    ELSE /\ lastOp' = Op("submitEditQuestion", FALSE, FALSE)
         /\ UNCHANGED <<treeVars, uiVars, storage, sheetData, pending, mounting, edits>>

\* what is typed into the edit-question form
EditForms ==
    {[title |-> <<"y", " ">>, difficulty |-> "Easy", url |-> <<" ">>, notes |-> <<" ", "m">>],
     [title |-> <<" ">>, difficulty |-> "Hard", url |-> <<>>, notes |-> <<"m">>]}

\* a bound on the calls that change the tree in the runs of the forms
MaxFormEdits == 2

\* names and titles given to the store: not a string, empty, blank, valid
FormNames == {Undefined, ANumber, <<>>, <<" ">>, ValidName}

\* questionData of updateQuestion and addQuestion: one member present and the
\* others absent, a difficulty that is not canonical, members present but
\* empty, no object
QuestionPartials ==
    {[title |-> <<"y">>, difficulty |-> UndefinedLabel, url |-> Undefined],
     [title |-> Undefined, difficulty |-> "Easy", url |-> Undefined],
     [title |-> <<"y">>, difficulty |-> "hard", url |-> Undefined],
     [title |-> Undefined, difficulty |-> UndefinedLabel, url |-> <<"https", ":", "//", "y">>],
     [title |-> <<>>, difficulty |-> "", url |-> <<>>],
     NoData}

NameCall ==
    /\ MainView
    /\ \E name \in FormNames :
          \/ addTopic(name)
          \/ \E topicId \in TopicIds(topics) :
                updateTopic(topicId, name) \/ addSubtopic(topicId, name)
          \/ \E sc \in RealScopes(topics) :
                \/ updateSubtopic(sc[1], sc[2], name)
                \/ addQuestion(sc[1], sc[2], [ValidData EXCEPT !.title = name])
    /\ edits' <= MaxFormEdits

QuestionDataCall ==
    /\ MainView
    /\ \E sc \in RealScopes(topics), questionData \in QuestionPartials :
          \/ addQuestion(sc[1], sc[2], questionData)
          \/ \E questionId \in Range(Ids(QuestionsOf(topics, sc[1], sc[2]))) :
                updateQuestion(sc[1], sc[2], questionId, questionData)
    /\ edits' <= MaxFormEdits

EditQuestionSubmit ==
    /\ MainView
    /\ \E sc \in RealScopes(topics), formData \in EditForms :
          \E questionId \in Range(Ids(QuestionsOf(topics, sc[1], sc[2]))) :
             submitEditQuestion(sc[1], sc[2], questionId, formData)
    /\ edits' <= MaxFormEdits

NextForms ==
    \/ Mount
    \/ Retry
    \/ NameCall
    \/ QuestionDataCall
    \/ EditQuestionSubmit

SpecForms == Init /\ [][NextForms]_vars

\* The filter bar: the search box, the two selects with their options, and
\* the setters called with no value
Searches ==
    {<<>>, <<" ">>, <<"A">>, <<" ", "a", " ">>, <<"u", "N">>, <<"n", " ", "t">>, <<"z">>, Undefined}

FilterCall ==
    /\ MainView
    /\ \/ \E query \in Searches : setSearchQuery(query)
       \/ \E difficulty \in DIFFICULTY_LEVELS \cup {FILTER_ALL, "", UndefinedLabel} :
             setFilterDifficulty(difficulty)
       \/ \E status \in {FILTER_ALL, FILTER_SOLVED, FILTER_UNSOLVED, "", UndefinedLabel} :
             setFilterStatus(status)

NextFilter ==
    \/ Mount
    \/ Retry
    \/ FilterCall

SpecFilter == Init /\ [][NextFilter]_vars

\* The ingest on its own: the source document is any list of up to MaxRecords
\* records whose topic and subTopic are drawn from names that differ, names
\* that are equal once trimmed, and names that are missing or blank; the
\* record at index i has the _id and the title i.
MaxRecords == 3

RecordNames ==
    {<<"B">>, <<"A">>, <<" ", "A">>, Undefined} \X {<<"S">>, <<" ">>}

RecordLists == UNION {[1..n -> RecordNames] : n \in 0..MaxRecords}

DocOfNames(names) ==
    DocOf([i \in DOMAIN names |->
              RawQuestion(<<"q", ToString(i)>>, names[i][1], names[i][2],
                          <<ToString(i)>>, "Easy", "false")])

IngestDocs == {DocOfNames(names) : names \in RecordLists} \cup {DocNoSheet, DocNoQuestions}

InitIngest ==
    /\ sheetData \in IngestDocs
    /\ sheet = InitialState.sheet
    /\ topics = InitialState.topics
    /\ expandedTopics = InitialState.expandedTopics
    /\ expandedSubtopics = InitialState.expandedSubtopics
    /\ loading = InitialState.loading
    /\ error = InitialState.error
    /\ searchQuery = InitialState.searchQuery
    /\ filterDifficulty = InitialState.filterDifficulty
    /\ filterStatus = InitialState.filterStatus
    /\ theme = InitialState.theme
    /\ showStats = InitialState.showStats
    /\ storage = NoItem
    /\ pending = 0
    /\ mounting = TRUE
    /\ edits = 0
    /\ lastOp = Op("create", TRUE, FALSE)

NextIngest ==
    \/ Mount
    \/ Retry

SpecIngest == InitIngest /\ [][NextIngest]_vars

\* The checkbox of a question, the check-all box of a
\* subtopic and the notes box, with the values they pass
SolveCall ==
    /\ MainView
    /\ \/ \E questionId \in QuestionIds(topics) :
             \/ toggleQuestionSolved(questionId)
             \/ \E notes \in {<<" ", "n">>, <<" ">>, Undefined} :
                   updateQuestionNotes(questionId, notes)
       \/ \E sc \in RealScopes(topics), solved \in {"true", "false", "undefined"} :
             toggleAllInSubtopic(sc[1], sc[2], solved)

\* the delete buttons of a topic and of a subtopic
RemoveCall ==
    /\ MainView
    /\ \/ \E topicId \in TopicIds(topics) : deleteTopic(topicId)
       \/ \E sc \in RealScopes(topics) : deleteSubtopic(sc[1], sc[2])

NextExpand ==
    \/ Mount
    \/ Retry
    \/ ExpansionCall
    \/ RemoveCall

SpecExpand == Init /\ [][NextExpand]_vars

\* the application used, closed and opened again: the user marks questions
\* and deletes topics and subtopics, and the page is reloaded at any time
NextRestart ==
    \/ Mount
    \/ Retry
    \/ SolveCall
    \/ RemoveCall
    \/ Restart

SpecRestart == Init /\ [][NextRestart]_vars

\* updateQuestion given the titles a caller can pass
TitleCall ==
    /\ MainView
    /\ \E sc \in RealScopes(topics), title \in FormNames :
          \E questionId \in Range(Ids(QuestionsOf(topics, sc[1], sc[2]))) :
             updateQuestion(sc[1], sc[2], questionId, [ValidData EXCEPT !.title = title])
    /\ edits' <= MaxFormEdits

NextTitles ==
    \/ Mount
    \/ Retry
    \/ NameCall
    \/ TitleCall

SpecTitles == Init /\ [][NextTitles]_vars

\* three records of one topic and one subtopic
DocThree ==
    DocOfNames(<<<<<<"A">>, <<"S">>>>, <<<<"A">>, <<"S">>>>, <<<<"A">>, <<"S">>>>>>)

\* the store created over a source with a group of three siblings, or over
\* one that cannot be ingested
InitOrder == InitIngest /\ sheetData \in {DocThree, DocNoSheet}

\* adds, deletes and reorders in any interleaving
NextOrder ==
    \/ Mount
    \/ Retry
    \/ AddTopicCall
    \/ DeleteTopicCall
    \/ ReorderTopicsCall
    \/ AddSubtopicCall
    \/ DeleteSubtopicCall
    \/ ReorderSubtopicsCall
    \/ AddQuestionCall
    \/ DeleteQuestionCall
    \/ ReorderQuestionsCall

SpecOrder == InitOrder /\ [][NextOrder]_vars

\* three questions of one subtopic that differ in difficulty and in isSolved
DocDrag ==
    DocOf(<<RawQuestion(<<"q", "1">>, <<"A">>, <<"S">>, <<"a">>, "Easy", "true"),
            RawQuestion(<<"q", "2">>, <<"A">>, <<"S">>, <<"b">>, "Easy", "false"),
            RawQuestion(<<"q", "3">>, <<"A">>, <<"S">>, <<"c">>, "Hard", "false")>>)

\* the same with the _id of the first record on the second record too
DocDragDup ==
    DocOf(<<RawQuestion(<<"q", "1">>, <<"A">>, <<"S">>, <<"a">>, "Easy", "true"),
            RawQuestion(<<"q", "1">>, <<"A">>, <<"S">>, <<"b">>, "Easy", "false"),
            RawQuestion(<<"q", "3">>, <<"A">>, <<"S">>, <<"c">>, "Hard", "false")>>)

InitDrag ==
    /\ sheetData \in {DocDrag, DocDragDup, DocNoSheet}
    /\ sheet = InitialState.sheet
    /\ topics = InitialState.topics
    /\ expandedTopics = InitialState.expandedTopics
    /\ expandedSubtopics = InitialState.expandedSubtopics
    /\ loading = InitialState.loading
    /\ error = InitialState.error
    /\ searchQuery = InitialState.searchQuery
    /\ filterDifficulty = InitialState.filterDifficulty
    /\ filterStatus = InitialState.filterStatus
    /\ theme = InitialState.theme
    /\ showStats = InitialState.showStats
    /\ storage = NoItem
    /\ pending = 0
    /\ mounting = TRUE
    /\ edits = 0
    /\ lastOp = Op("create", TRUE, FALSE)

\* the selects of the filter bar
SelectCall ==
    /\ MainView
    /\ \/ \E difficulty \in {FILTER_ALL, "Easy", "Hard"} : setFilterDifficulty(difficulty)
       \/ \E status \in {FILTER_ALL, FILTER_SOLVED, FILTER_UNSOLVED} : setFilterStatus(status)

\* handleDragEnd of QuestionList: the sortable items are the ids of the
\* filtered questions; active and over are two of them
handleDragEnd(topicId, subtopicId, questions) ==
    \E activeId, overId \in
          Range(Ids(filterQuestions(questions, searchQuery, filterDifficulty, filterStatus))) :
       /\ activeId # overId
       /\ reorderQuestions(topicId, subtopicId, activeId, overId)

DragCall ==
    /\ MainView
    /\ \E sc \in RealScopes(topics) :
          handleDragEnd(sc[1], sc[2], QuestionsOf(topics, sc[1], sc[2]))

NextDrag ==
    \/ Mount
    \/ Retry
    \/ SelectCall
    \/ DragCall

SpecDrag == InitDrag /\ [][NextDrag]_vars

\* Calls of the store that do not come from the screens: get().fetchSheetData(),
\* resetProgress() and addTopic(name) are callable whatever loading and error
\* are, also while a callback of resetProgress is scheduled
StoreFetch ==
    /\ ~mounting
    /\ fetchSheetData
    /\ edits' = IF topics' = topics THEN edits ELSE 0
    /\ lastOp' = Op("fetchSheetData", TRUE, FALSE)
    /\ UNCHANGED <<sheetData, expandedTopics, expandedSubtopics, uiVars, pending, mounting>>

StoreReset == ~mounting /\ resetProgress

StoreAdd == ~mounting /\ addTopic(ValidName)

NextWindow ==
    \/ Mount
    \/ TimerFire
    \/ StoreFetch
    \/ StoreReset
    \/ StoreAdd

SpecWindow == Init /\ [][NextWindow]_vars

NextSolve ==
    \/ Mount
    \/ Retry
    \/ SolveCall

SpecSolve == Init /\ [][NextSolve]_vars

\* the theme button and the statistics button of the header
ViewCall == MainView /\ (toggleTheme \/ toggleStats)

\* Every operation of the store, each called for entities of the tree with
\* valid input, in runs that change little.

\* A bound on what a run has changed: calls that changed the tree, keys of
\* the expansion maps, and UI fields that are not as the store creates them
MaxChanges == 1

Changes ==
    edits + Cardinality(DOMAIN expandedTopics) + Cardinality(DOMAIN expandedSubtopics)
        + Cardinality({f \in {"searchQuery", "filterDifficulty", "filterStatus",
                              "theme", "showStats"} :
                          [searchQuery |-> searchQuery, filterDifficulty |-> filterDifficulty,
                           filterStatus |-> filterStatus, theme |-> theme,
                           showStats |-> showStats][f] # InitialState[f]})

NextAll ==
    \/ Mount
    \/ Retry
    \/ TimerFire
    \/ ResetCall
    \/ Edit /\ Changes' <= MaxChanges
    \/ NameCall /\ Changes' <= MaxChanges
    \/ EditQuestionSubmit /\ Changes' <= MaxChanges
    \/ SolveCall /\ Changes' <= MaxChanges
    \/ StarCall
    \/ ExpansionCall /\ Changes' <= MaxChanges
    \/ FilterCall /\ Changes' <= MaxChanges
    \/ ViewCall /\ Changes' <= MaxChanges

SpecAll == Init /\ [][NextAll]_vars

\* ------------------------------------------------------------------------
\* Properties
\* ------------------------------------------------------------------------

Groups(tps) ==
    {tps} \cup {t.subtopics : t \in Range(tps)} \cup {s.questions : s \in Subtopics(tps)}

\* the entities of the tree by position: <<i>> a topic, <<i, j>> a subtopic,
\* <<i, j, k>> a question
EntityPaths(tps) ==
    {<<i>> : i \in DOMAIN tps}
        \cup UNION {{<<i, j>> : j \in DOMAIN tps[i].subtopics} : i \in DOMAIN tps}
        \cup UNION {UNION {{<<i, j, k>> : k \in DOMAIN tps[i].subtopics[j].questions}
                           : j \in DOMAIN tps[i].subtopics} : i \in DOMAIN tps}

EntityAt(tps, path) ==
    IF Len(path) = 1 THEN tps[path[1]]
    ELSE IF Len(path) = 2 THEN tps[path[1]].subtopics[path[2]]
    ELSE tps[path[1]].subtopics[path[2]].questions[path[3]]

\* C1: in every reachable state the `order` values of every sibling group
\* (the topics, the subtopics of each topic, the questions of each subtopic)
\* are exactly 0..n-1, each once.
C1_OrderDense == \A group \in Groups(topics) : Dense(group)

\* C2: in every reachable state no two entities of the tree have the same id.
C2_UniqueIds ==
    \A p1, p2 \in EntityPaths(topics) :
        p1 # p2 => EntityAt(topics, p1).id # EntityAt(topics, p2).id

\* the item at 0-based index i of group `old` is at index j of `new`, and the
\* other items are in the same sequence in both
MovedTo(old, new, i, j) ==
    /\ Len(new) = Len(old)
    /\ new[j + 1].id = old[i + 1].id
    /\ Ids(spliceRemove(new, j)) = Ids(spliceRemove(old, i))

\* C3: a reorder call with two distinct ids of the addressed group, the active
\* item at index i and the over item at index j, leaves the active item at
\* index j and the other items in their relative sequence (a move, not a swap).
\* Such a call is the one lastOp records as ok.
C3_ReorderMoves ==
    [][/\ (lastOp'.op = "reorderTopics" /\ lastOp'.ok) => \A pr \in PairArgs(topics) :
            (reorderTopics(pr[1], pr[2]) /\ Movable(topics, pr[1], pr[2]))
                => MovedTo(topics, topics',
                           findIndex(topics, pr[1]), findIndex(topics, pr[2]))
       /\ (lastOp'.op = "reorderSubtopics" /\ lastOp'.ok) =>
            \A a \in ReorderSubtopicsArgs(topics) :
            (reorderSubtopics(a[1], a[2], a[3])
                /\ Movable(SubtopicsOf(topics, a[1]), a[2], a[3]))
                => MovedTo(SubtopicsOf(topics, a[1]), SubtopicsOf(topics', a[1]),
                           findIndex(SubtopicsOf(topics, a[1]), a[2]),
                           findIndex(SubtopicsOf(topics, a[1]), a[3]))
       /\ (lastOp'.op = "reorderQuestions" /\ lastOp'.ok) =>
            \A a \in ReorderQuestionsArgs(topics) :
            (reorderQuestions(a[1], a[2], a[3], a[4])
                /\ Movable(QuestionsOf(topics, a[1], a[2]), a[3], a[4]))
                => MovedTo(QuestionsOf(topics, a[1], a[2]), QuestionsOf(topics', a[1], a[2]),
                           findIndex(QuestionsOf(topics, a[1], a[2]), a[3]),
                           findIndex(QuestionsOf(topics, a[1], a[2]), a[4]))
      ]_vars

\* the first of three topics has been moved past the two others by one call
C3_Witness ==
    /\ lastOp.op = "reorderTopics" /\ lastOp.ok
    /\ Len(topics) = 3 /\ edits = 2
    /\ topics[1].id = <<"topic", "-", "1">>
    /\ topics[3].id = <<"topic", "-", "0">>

\* every item of the group has `order` equal to its 0-based index
OrderIsIndex(group) == \A i \in DOMAIN group : group[i].order = i - 1

\* C4: after a reorder call with two distinct ids of the addressed group every
\* item of the group has `order` equal to its index, also when the group had
\* gaps or duplicate `order` values before the call.
C4_ReorderRenumbers ==
    [][/\ (lastOp'.op = "reorderTopics" /\ lastOp'.ok) => \A pr \in PairArgs(topics) :
            (reorderTopics(pr[1], pr[2]) /\ Movable(topics, pr[1], pr[2]))
                => OrderIsIndex(topics') /\ Dense(topics')
       /\ (lastOp'.op = "reorderSubtopics" /\ lastOp'.ok) =>
            \A a \in ReorderSubtopicsArgs(topics) :
            (reorderSubtopics(a[1], a[2], a[3])
                /\ Movable(SubtopicsOf(topics, a[1]), a[2], a[3]))
                => /\ OrderIsIndex(SubtopicsOf(topics', a[1]))
                   /\ Dense(SubtopicsOf(topics', a[1]))
       /\ (lastOp'.op = "reorderQuestions" /\ lastOp'.ok) =>
            \A a \in ReorderQuestionsArgs(topics) :
            (reorderQuestions(a[1], a[2], a[3], a[4])
                /\ Movable(QuestionsOf(topics, a[1], a[2]), a[3], a[4]))
                => /\ OrderIsIndex(QuestionsOf(topics', a[1], a[2]))
                   /\ Dense(QuestionsOf(topics', a[1], a[2]))
      ]_vars

\* a reorder has been made of a group whose `order` values were not 0..n-1
C4_Witness ==
    /\ lastOp.op \in {"reorderTopics", "reorderSubtopics", "reorderQuestions"}
    /\ lastOp.ok /\ lastOp.gap

\* C5: a reorder call whose ids are equal, or one of which is not in the
\* addressed group, or whose parent does not exist, leaves the tree unchanged:
\* a reorder step that changes the tree is a call with two distinct ids of the
\* addressed group.
C5_ReorderNoOp ==
    [][/\ (lastOp'.op = "reorderTopics" /\ topics' # topics) =>
            \A pr \in PairArgs(topics) :
                reorderTopics(pr[1], pr[2]) => Movable(topics, pr[1], pr[2])
       /\ (lastOp'.op = "reorderSubtopics" /\ topics' # topics) =>
            \A a \in ReorderSubtopicsArgs(topics) :
                reorderSubtopics(a[1], a[2], a[3])
                    => Movable(SubtopicsOf(topics, a[1]), a[2], a[3])
       /\ (lastOp'.op = "reorderQuestions" /\ topics' # topics) =>
            \A a \in ReorderQuestionsArgs(topics) :
                reorderQuestions(a[1], a[2], a[3], a[4])
                    => Movable(QuestionsOf(topics, a[1], a[2]), a[3], a[4])
      ]_vars

\* a reorder call has been rejected for a group whose `order` values have a gap
C5_Witness ==
    /\ lastOp.op \in {"reorderSubtopics", "reorderQuestions"}
    /\ ~lastOp.ok /\ lastOp.gap
    /\ ~C1_OrderDense

\* the ids of the subtopics and questions under the topics with id topicId,
\* and of the questions under the subtopic subtopicId of topic topicId
IdsUnderTopic(tps, topicId) ==
    LET under == SelectSeq(tps, LAMBDA t : t.id = topicId)
    IN  SubtopicIds(under) \cup QuestionIds(under)

IdsUnderSubtopic(tps, topicId, subtopicId) ==
    UNION {Range(Ids(s.questions)) :
              s \in {x \in Range(SubtopicsOf(tps, topicId)) : x.id = subtopicId}}

\* every subtopic id is under one topic and every question id under one subtopic
OneParent(tps) ==
    /\ \A p1, p2 \in {p \in EntityPaths(tps) : Len(p) = 2} :
           EntityAt(tps, p1).id = EntityAt(tps, p2).id => p1 = p2
    /\ \A p1, p2 \in {p \in EntityPaths(tps) : Len(p) = 3} :
           EntityAt(tps, p1).id = EntityAt(tps, p2).id => p1 = p2

\* C6: after deleteTopic(id) no subtopic or question that was under the topic
\* remains in the tree, after deleteSubtopic(topicId, id) no question that was
\* under the subtopic remains, and in every reachable state each subtopic is in
\* exactly one topic and each question in exactly one subtopic.
C6_Cascade ==
    /\ []OneParent(topics)
    /\ [][/\ \A topicId \in TopicIds(topics) :
                deleteTopic(topicId)
                    => IdsUnderTopic(topics, topicId) \cap AllIds(topics') = {}
          /\ \A a \in RealScopes(topics) :
                deleteSubtopic(a[1], a[2])
                    => IdsUnderSubtopic(topics, a[1], a[2]) \cap AllIds(topics') = {}
         ]_vars

\* question ids with the uuid of a generated id left out
StripUuid(tps) ==
    LET strip(q) == IF Len(q.id) = 4 /\ q.id[3] = "uuid"
                    THEN [q EXCEPT !.id = SubSeq(q.id, 1, 3)] ELSE q
    IN  mapQuestions(tps, strip)

\* the store holds what an ingest of the source document gives (generated ids
\* compared without their uuid)
Reingested ==
    LET r == transformSheetData(sheetData, {})
    IN  /\ r.ok
        /\ loading = FALSE
        /\ error = NoError
        /\ sheet = r.sheet
        /\ StripUuid(topics) = StripUuid(r.topics)

\* C7: after resetProgress the deferred re-ingest runs, and once it has run
\* loading is false and topics and sheet are those of a fresh ingest of the
\* source document: no edit made before the reset is left.
C7_ResetReloads ==
    /\ [](lastOp.op = "timer" => Reingested)
    /\ (lastOp.op = "resetProgress") ~> (lastOp.op = "timer" /\ Reingested)

\* the callback of a reset has run and loaded a tree
C7_Witness ==
    /\ lastOp.op = "timer"
    /\ pending = 0 /\ Reingested /\ Len(topics) > 0

\* C8: resetProgress leaves the store with topics empty, sheet null and
\* loading true and the re-ingest scheduled, not run: the tree is reloaded
\* only by a later step.
C8_ResetDefers ==
    [][lastOp'.op = "resetProgress"
          => /\ topics' = <<>>
             /\ sheet' = NullSheet
             /\ loading' = TRUE
             /\ pending' = pending + 1]_vars

\* resetProgress has been called on a loaded tree and its callback is pending
C8_Witness ==
    /\ lastOp.op = "resetProgress"
    /\ pending = 1 /\ loading /\ topics = <<>>
    /\ transformSheetData(sheetData, {}).ok

\* C9: if the source document lacks data.sheet or data.questions, a load ends
\* with error set, loading false, the topic list empty and the sheet not set.
C9_FatalIngest ==
    (lastOp.op \in {"fetchSheetData", "timer"}
        /\ (~sheetData.hasSheet \/ ~sheetData.hasQuestions))
        => /\ error # NoError
           /\ loading = FALSE
           /\ topics = <<>>
           /\ sheet = NullSheet

\* a load of a document without questions has failed
C9_Witness ==
    /\ lastOp.op = "fetchSheetData"
    /\ ~sheetData.hasQuestions /\ Len(sheetData.questions) = 0
    /\ error = "Invalid sheet data format"

\* C10: writing the persisted members of a state and hydrating a fresh store
\* from them gives a topics tree equal to the one of the state.
C10_RoundTrip ==
    hydrate(persisted(topics, sheet, expandedTopics, expandedSubtopics, theme)).topics
        = topics

\* a tree with questions of the ingest and a question added by a call
C10_Witness ==
    /\ lastOp.op = "addQuestion" /\ lastOp.ok
    /\ \E q \in Questions(topics) : "tags" \in DOMAIN q
    /\ \E q \in Questions(topics) : "tags" \notin DOMAIN q
    /\ hydrate(storage).topics = topics

\* C11: toggleQuestionSolved(id) called twice in a row gives the tree back:
\* after a call, the tree a second call with the same id sets is the tree
\* before the first call.
C11_ToggleTwice ==
    [][lastOp'.op = "toggleQuestionSolved" =>
          \A questionId \in QuestionIds(topics) \cup BadIds :
              toggleQuestionSolved(questionId)
                  => toggleQuestionSolved_set(topics', questionId) = topics]_vars

\* a question has been toggled twice and the tree is the loaded one again
C11_Witness ==
    /\ lastOp.op = "toggleQuestionSolved" /\ lastOp.ok
    /\ edits = 2 /\ Len(topics) > 0
    /\ Reingested

Starred(q) == "isStarred" \in DOMAIN q /\ q.isStarred

\* C12: the store offers toggleQuestionStarred(id); a call for an id that is
\* in the tree flips isStarred of the question with that id, wherever it is
\* in the tree, and changes nothing else.
C12_StarToggles ==
    [][lastOp'.op = "toggleQuestionStarred" =>
          \A questionId \in QuestionIds(topics) :
              StarClick(questionId) =>
                  /\ EntityPaths(topics') = EntityPaths(topics)
                  /\ \A p \in EntityPaths(topics) :
                        Len(p) = 3 /\ EntityAt(topics, p).id = questionId
                            => Starred(EntityAt(topics', p)) = ~Starred(EntityAt(topics, p))]_vars

\* C13: when the edit-question form is submitted for a question of the tree
\* with notes N in the form, the notes of that question afterwards are N
\* trimmed.
C13_FormSavesNotes ==
    [][(lastOp'.op = "updateQuestion" /\ lastOp'.ok) =>
          \A sc \in RealScopes(topics), formData \in EditForms :
              \A questionId \in Range(Ids(QuestionsOf(topics, sc[1], sc[2]))) :
                  (trim(formData.title) # <<>>
                     /\ submitEditQuestion(sc[1], sc[2], questionId, formData))
                  => \A q \in Range(QuestionsOf(topics', sc[1], sc[2])) :
                        q.id = questionId => q.notes = trim(formData.notes)]_vars

\* the question at path p of the tree is the one a call with these ids addresses
Addressed(tps, p, topicId, subtopicId, questionId) ==
    /\ Len(p) = 3
    /\ tps[p[1]].id = topicId
    /\ tps[p[1]].subtopics[p[2]].id = subtopicId
    /\ EntityAt(tps, p).id = questionId

\* C14: updateQuestion on a question of the tree changes of it only title,
\* difficulty and url, and of these only the ones present in the partial; its
\* other fields and its place, every other question, and every topic and
\* subtopic stay as they were.
C14_UpdateQuestionFrame ==
    [][(lastOp'.op = "updateQuestion" /\ lastOp'.ok) =>
          \A sc \in RealScopes(topics), questionData \in QuestionPartials \ {NoData} :
              \A questionId \in Range(Ids(QuestionsOf(topics, sc[1], sc[2]))) :
                  updateQuestion(sc[1], sc[2], questionId, questionData) =>
                      /\ EntityPaths(topics') = EntityPaths(topics)
                      /\ \A p \in EntityPaths(topics) :
                            LET old == EntityAt(topics, p)
                                new == EntityAt(topics', p)
                            IN  IF Len(p) = 1 THEN [new EXCEPT !.subtopics = old.subtopics] = old
                                ELSE IF Len(p) = 2 THEN [new EXCEPT !.questions = old.questions] = old
                                ELSE IF ~Addressed(topics, p, sc[1], sc[2], questionId) THEN new = old
                                ELSE /\ [new EXCEPT !.title = old.title,
                                                    !.difficulty = old.difficulty,
                                                    !.url = old.url] = old
                                     /\ questionData.title = Undefined => new.title = old.title
                                     /\ questionData.difficulty = UndefinedLabel
                                            => new.difficulty = old.difficulty
                                     /\ questionData.url = Undefined => new.url = old.url]_vars

\* a question has got a new title by one update and a new url by another
C14_Witness ==
    /\ lastOp.op = "updateQuestion" /\ lastOp.ok
    /\ edits = 2
    /\ \E q \in Questions(topics) :
          /\ q.title = <<"y">> /\ q.url = <<"https", ":", "//", "y">>
          /\ q.isSolved

\* C15: a mutator call whose ids address nothing (an id empty or absent from
\* the tree, or the id of an entity with the id of a parent it is not under)
\* leaves the tree and both expansion maps as they were.
C15_MisuseNoOp ==
    [][MisuseCall =>
          /\ topics' = topics
          /\ expandedTopics' = expandedTopics
          /\ expandedSubtopics' = expandedSubtopics]_vars

\* not a string, empty, or made of white space only
BlankName(name) ==
    name \in NotAString \/ \A i \in DOMAIN name : name[i] \in WhiteSpace

\* C16: addTopic, updateTopic, addSubtopic, updateSubtopic and addQuestion
\* called for entities of the tree with a name (title) that is not a string,
\* is empty or is white space only leave the tree as it was.
C16_BlankNameNoOp ==
    [][lastOp'.op \in {"addTopic", "updateTopic", "addSubtopic", "updateSubtopic", "addQuestion"} =>
          \A name \in {n \in FormNames : BlankName(n)} :
              (\/ addTopic(name)
               \/ \E topicId \in TopicIds(topics) :
                     updateTopic(topicId, name) \/ addSubtopic(topicId, name)
               \/ \E sc \in RealScopes(topics) :
                     \/ updateSubtopic(sc[1], sc[2], name)
                     \/ addQuestion(sc[1], sc[2], [ValidData EXCEPT !.title = name]))
              => topics' = topics]_vars

\* a rename of a subtopic of the tree has been refused after two changes
C16_Witness ==
    /\ lastOp.op = "updateSubtopic" /\ ~lastOp.ok
    /\ edits = 2
    /\ \E s \in Subtopics(topics) : s.name = trim(ValidName)

Canonical == {"Easy", "Medium", "Hard", "Basic"}
Coerced(difficulty) == IF difficulty \in Canonical THEN difficulty ELSE "Medium"

\* C17: the difficulty of every question of the tree is Easy, Medium, Hard or
\* Basic in every state; a load gives each record its difficulty, or Medium
\* when that is missing or not canonical, and so do addQuestion and
\* updateQuestion, except that updateQuestion with no difficulty keeps the
\* difficulty the question had.
C17_Difficulty ==
    [][/\ \A q \in Questions(topics) \cup Questions(topics') : q.difficulty \in Canonical
       /\ (lastOp'.op = "fetchSheetData" /\ topics = <<>> /\ topics' # <<>>) =>
             \A i \in DOMAIN sheetData.questions :
                \E q \in Questions(topics') :
                   /\ q.isSolved = (sheetData.questions[i].isSolved = "true")
                   /\ q.difficulty = Coerced(sheetData.questions[i].questionId.difficulty)
       /\ (lastOp'.op = "addQuestion" /\ lastOp'.ok) =>
             \A sc \in RealScopes(topics), questionData \in QuestionPartials \ {NoData} :
                addQuestion(sc[1], sc[2], questionData) =>
                   LET questions == QuestionsOf(topics', sc[1], sc[2])
                   IN  questions[Len(questions)].difficulty = Coerced(questionData.difficulty)
       /\ (lastOp'.op = "updateQuestion" /\ lastOp'.ok) =>
             \A sc \in RealScopes(topics), questionData \in QuestionPartials \ {NoData} :
                \A questionId \in Range(Ids(QuestionsOf(topics, sc[1], sc[2]))) :
                   updateQuestion(sc[1], sc[2], questionId, questionData) =>
                      \A p \in EntityPaths(topics) :
                         Addressed(topics, p, sc[1], sc[2], questionId) =>
                            EntityAt(topics', p).difficulty =
                               IF questionData.difficulty \in {UndefinedLabel, ""}
                               THEN EntityAt(topics, p).difficulty
                               ELSE Coerced(questionData.difficulty)]_vars

\* a question loaded with difficulty 'easy' is Medium, and the question added
\* last with difficulty 'hard' is Medium
C17_Witness ==
    /\ lastOp.op = "addQuestion" /\ lastOp.ok
    /\ sheetData = DocGood /\ Len(topics) = 1
    /\ LET questions == topics[1].subtopics[1].questions
       IN  /\ Len(questions) = 3
           /\ questions[2].difficulty = "Medium"
           /\ questions[3].title = <<"y">> /\ questions[3].difficulty = "Medium"

RECURSIVE SumOf(_, _)
SumOf(seq, field) == IF seq = <<>> THEN 0 ELSE seq[1][field] + SumOf(Tail(seq), field)

SumByDifficulty(byDifficulty, field) ==
    byDifficulty["Easy"][field] + byDifficulty["Medium"][field]
        + byDifficulty["Hard"][field] + byDifficulty["Basic"][field]

\* C18: in the result of calculateDetailedStats, total is the sum of the
\* totals of the four difficulties and the sum of the totals of the topics,
\* and solved is the sum of their solved counts.
C18_StatsAddUp ==
    /\ calculateDetailedStats(topics).total
          = SumByDifficulty(calculateDetailedStats(topics).byDifficulty, "total")
    /\ calculateDetailedStats(topics).total
          = SumOf(calculateDetailedStats(topics).byTopic, "total")
    /\ calculateDetailedStats(topics).solved
          = SumByDifficulty(calculateDetailedStats(topics).byDifficulty, "solved")
    /\ calculateDetailedStats(topics).solved
          = SumOf(calculateDetailedStats(topics).byTopic, "solved")

\* two topics with three questions of three difficulties, two of them solved
C18_Witness ==
    /\ Len(calculateDetailedStats(topics).byTopic) = 2
    /\ calculateDetailedStats(topics).total = 3
    /\ calculateDetailedStats(topics).solved = 2
    /\ calculateDetailedStats(topics).byDifficulty["Hard"] = [total |-> 1, solved |-> 0]
    /\ calculateDetailedStats(topics).byDifficulty["Basic"] = [total |-> 1, solved |-> 1]

\* C19: toggleQuestionSolved(id) for an id of the tree changes the solved
\* count of calculateTotalProgress by exactly one, up or down, and leaves its
\* total as it was.
C19_ToggleCountsOne ==
    [][(lastOp'.op = "toggleQuestionSolved" /\ lastOp'.ok) =>
          /\ calculateTotalProgress(topics').total = calculateTotalProgress(topics).total
          /\ calculateTotalProgress(topics').solved
                \in {calculateTotalProgress(topics).solved + 1,
                     calculateTotalProgress(topics).solved - 1}]_vars

\* t occurs in s
Contains(s, t) ==
    \E i \in 0..Len(s) : \A k \in 1..Len(t) : i + k <= Len(s) /\ s[i + k] = t[k]

\* the three predicates of the filter bar on a question
Matches(q, search, difficulty, status) ==
    /\ \/ \A i \in DOMAIN search : search[i] \in WhiteSpace
       \/ Contains(toLowerCase(q.title), toLowerCase(trim(search)))
    /\ difficulty = "all" \/ q.difficulty = difficulty
    /\ \/ status = "all"
       \/ status = "solved" /\ q.isSolved
       \/ status = "unsolved" /\ ~q.isSolved

\* C20: filterQuestions, given the questions of a subtopic and the search,
\* difficulty and status of the filter bar, returns exactly the questions that
\* satisfy all three predicates, in the order they have.
C20_FilterExact ==
    \A s \in Subtopics(topics) :
        LET shown == filterQuestions(s.questions, searchQuery, filterDifficulty, filterStatus)
        IN  /\ \A q \in Range(s.questions) :
                  q \in Range(shown) <=> Matches(q, searchQuery, filterDifficulty, filterStatus)
            /\ \E pick \in SUBSET DOMAIN s.questions :
                  /\ Cardinality(pick) = Len(shown)
                  /\ \A k \in DOMAIN s.questions :
                        k \in pick <=> Matches(s.questions[k], searchQuery,
                                               filterDifficulty, filterStatus)
                  /\ \A i, j \in DOMAIN shown : i < j => shown[i].order < shown[j].order

\* the three filters are set and one question of two is shown
C20_Witness ==
    /\ trim(searchQuery) # <<>> /\ filterDifficulty # "all" /\ filterStatus # "all"
    /\ \E s \in Subtopics(topics) :
          /\ Len(s.questions) = 2
          /\ Len(filterQuestions(s.questions, searchQuery, filterDifficulty, filterStatus)) = 1

\* the topic name and the subtopic name a record stands for
NamesOf(record) ==
    <<sanitizeString(record.topic, <<"G", "e", "n">>),
      sanitizeString(record.subTopic, <<"G", "e", "n">>)>>

\* the tree shown is the one the load made of the source document
Loaded == MainView /\ lastOp.op = "fetchSheetData"

\* C21: the ingest makes one topic per distinct sanitized topic name of the
\* records, one subtopic per distinct pair of topic name and subtopic name,
\* and of every record one question, placed in the subtopic the record
\* names: the tree has as many questions as the document has records.
C21_IngestGroups ==
    Loaded =>
        LET records == sheetData.questions
            pairs == {NamesOf(records[i]) : i \in DOMAIN records}
        IN  /\ {t.name : t \in Range(topics)} = {n[1] : n \in pairs}
            /\ Len(topics) = Cardinality({n[1] : n \in pairs})
            /\ \A t \in Range(topics) :
                  /\ {s.name : s \in Range(t.subtopics)} = {n[2] : n \in {m \in pairs : m[1] = t.name}}
                  /\ Len(t.subtopics) = Cardinality({m \in pairs : m[1] = t.name})
            /\ \A i \in DOMAIN records :
                  \E p \in EntityPaths(topics) :
                     /\ Len(p) = 3
                     /\ EntityAt(topics, p).id = records[i]._id
                     /\ EntityAt(topics, p).title = records[i].title
                     /\ <<topics[p[1]].name, topics[p[1]].subtopics[p[2]].name>> = NamesOf(records[i])
            /\ Cardinality({p \in EntityPaths(topics) : Len(p) = 3}) = Len(records)

\* three records of two topic names, two of them of one subtopic, are loaded
C21_Witness ==
    /\ Loaded
    /\ Len(sheetData.questions) = 3
    /\ Len(topics) = 2
    /\ Len(topics[1].subtopics) = 1 /\ Len(topics[1].subtopics[1].questions) = 2
    /\ sheetData.questions[1].topic # sheetData.questions[3].topic
    /\ topics[1].subtopics[1].questions[2].id = sheetData.questions[3]._id

\* the index of the first record whose names, cut to the first n, are these
FirstRecord(records, names, n) ==
    LET found == {i \in DOMAIN records : SubSeq(NamesOf(records[i]), 1, n) = names}
    IN  CHOOSE i \in found : \A j \in found : i <= j

\* C22: in the tree the ingest makes, the topics are in the order in which
\* their names first occur in the records, the subtopics of a topic in the
\* order in which they first occur, the questions of a subtopic in the order
\* of their records, and every item has `order` equal to its index.
C22_IngestOrder ==
    Loaded =>
        LET records == sheetData.questions
        IN  /\ \A i, j \in DOMAIN topics :
                  i < j => FirstRecord(records, <<topics[i].name>>, 1)
                              < FirstRecord(records, <<topics[j].name>>, 1)
            /\ \A t \in Range(topics) : \A i, j \in DOMAIN t.subtopics :
                  i < j => FirstRecord(records, <<t.name, t.subtopics[i].name>>, 2)
                              < FirstRecord(records, <<t.name, t.subtopics[j].name>>, 2)
            /\ \A s \in Subtopics(topics) : \A i, j \in DOMAIN s.questions :
                  i < j => \E a, b \in DOMAIN records :
                              /\ a < b
                              /\ records[a]._id = s.questions[i].id
                              /\ records[b]._id = s.questions[j].id
            /\ \A group \in Groups(topics) : OrderIsIndex(group)

\* topic B is loaded before topic A, and under A the subtopic named by the
\* fallback before subtopic S
C22_Witness ==
    /\ Loaded
    /\ Len(topics) = 2
    /\ topics[1].name = <<"B">> /\ topics[2].name = <<"A">>
    /\ Len(topics[2].subtopics) = 2
    /\ topics[2].subtopics[2].name = <<"S">>

\* sequence `new` is sequence `old` with one item after it
OneAppended(old, new) == Len(new) = Len(old) + 1 /\ SubSeq(new, 1, Len(old)) = old

\* C23: an addTopic, addSubtopic or addQuestion with a valid name (title) and
\* an existing parent puts one new item after the items of the addressed
\* sibling sequence, with `order` the number of siblings before the call and
\* no children (a question: not solved, notes empty), and leaves every item
\* there was as it was.
C23_AddAppends ==
    [][/\ (lastOp'.op = "addTopic" /\ lastOp'.ok) =>
             /\ OneAppended(topics, topics')
             /\ topics'[Len(topics')].order = Len(topics)
             /\ topics'[Len(topics')].subtopics = <<>>
       /\ (lastOp'.op = "addSubtopic" /\ lastOp'.ok) =>
             \A a \in AddSubtopicArgs(topics) :
                addSubtopic(a[1], a[2]) =>
                   \E i \in DOMAIN topics :
                      /\ topics[i].id = a[1]
                      /\ OneAppended(topics[i].subtopics, topics'[i].subtopics)
                      /\ topics = [topics' EXCEPT ![i].subtopics = topics[i].subtopics]
                      /\ LET new == topics'[i].subtopics[Len(topics'[i].subtopics)]
                         IN  /\ new.order = Len(topics[i].subtopics)
                             /\ new.questions = <<>>
                             /\ new.name = trim(a[2])
       /\ (lastOp'.op = "addQuestion" /\ lastOp'.ok) =>
             \A a \in AddQuestionArgs(topics) :
                addQuestion(a[1], a[2], a[3]) =>
                   \E i \in DOMAIN topics : \E j \in DOMAIN topics[i].subtopics :
                      /\ topics[i].id = a[1] /\ topics[i].subtopics[j].id = a[2]
                      /\ OneAppended(topics[i].subtopics[j].questions,
                                     topics'[i].subtopics[j].questions)
                      /\ topics = [topics' EXCEPT ![i].subtopics[j].questions =
                                                      topics[i].subtopics[j].questions]
                      /\ LET new == topics'[i].subtopics[j].questions[
                                        Len(topics'[i].subtopics[j].questions)]
                         IN  /\ new.order = Len(topics[i].subtopics[j].questions)
                             /\ new.isSolved = FALSE
                             /\ new.notes = <<>>]_vars

\* a topic, a subtopic of it and a question of that subtopic have been added
C23_Witness ==
    /\ lastOp.op = "addQuestion" /\ lastOp.ok
    /\ edits = 3
    /\ \E t \in Range(topics) :
          /\ IsGenerated(t.id, 1)
          /\ Len(t.subtopics) = 1
          /\ IsGenerated(t.subtopics[1].id, 2)
          /\ Len(t.subtopics[1].questions) = 1
          /\ t.subtopics[1].questions[1].order = 0

\* the items of a sibling group whose id is not id, as they are and in their sequence
Without(group, id) == SelectSeq(group, LAMBDA item : item.id # id)

\* C24: deleteTopic, deleteSubtopic and deleteQuestion take the item with the
\* given id out of the addressed sibling group; the siblings that are left
\* keep their `order` values and their sequence, and the items of the other
\* groups are unchanged.
C24_DeleteKeepsOrder ==
    [][/\ (lastOp'.op = "deleteTopic" /\ lastOp'.ok) =>
             \A topicId \in TopicIds(topics) :
                deleteTopic(topicId) =>
                   topics' = Without(topics, topicId) /\ Len(topics') < Len(topics)
       /\ (lastOp'.op = "deleteSubtopic" /\ lastOp'.ok) =>
             \A a \in RealScopes(topics) :
                deleteSubtopic(a[1], a[2]) =>
                   \E i \in DOMAIN topics :
                      /\ topics[i].id = a[1]
                      /\ Len(topics'[i].subtopics) < Len(topics[i].subtopics)
                      /\ topics' = [topics EXCEPT ![i].subtopics = Without(@, a[2])]
       /\ (lastOp'.op = "deleteQuestion" /\ lastOp'.ok) =>
             \A a \in DeleteQuestionArgs(topics) :
                deleteQuestion(a[1], a[2], a[3]) =>
                   \E i \in DOMAIN topics : \E j \in DOMAIN topics[i].subtopics :
                      /\ topics[i].id = a[1] /\ topics[i].subtopics[j].id = a[2]
                      /\ Len(topics'[i].subtopics[j].questions)
                            < Len(topics[i].subtopics[j].questions)
                      /\ topics' = [topics EXCEPT ![i].subtopics[j].questions =
                                                     Without(@, a[3])]]_vars

\* the first of two questions has been deleted and the one left has order 1
C24_Witness ==
    /\ lastOp.op = "deleteQuestion" /\ lastOp.ok
    /\ \E s \in Subtopics(topics) :
          Len(s.questions) = 1 /\ s.questions[1].order = 1

\* C25: updateTopic and updateSubtopic with a valid name and an existing
\* target change the name of that item and nothing else: its id, its `order`,
\* its place and its descendants, and every other item of the tree, are as
\* they were.
C25_RenameFrame ==
    [][/\ (lastOp'.op = "updateTopic" /\ lastOp'.ok) =>
             \A topicId \in TopicIds(topics), name \in FormNames :
                updateTopic(topicId, name) =>
                   \E i \in DOMAIN topics :
                      /\ topics[i].id = topicId
                      /\ topics'[i].name = trim(name)
                      /\ topics' = [topics EXCEPT ![i].name = trim(name)]
       /\ (lastOp'.op = "updateSubtopic" /\ lastOp'.ok) =>
             \A sc \in RealScopes(topics), name \in FormNames :
                updateSubtopic(sc[1], sc[2], name) =>
                   \E i \in DOMAIN topics : \E j \in DOMAIN topics[i].subtopics :
                      /\ topics[i].id = sc[1] /\ topics[i].subtopics[j].id = sc[2]
                      /\ topics'[i].subtopics[j].name = trim(name)
                      /\ topics' = [topics EXCEPT ![i].subtopics[j].name = trim(name)]]_vars

\* a topic that has a question and its subtopic have both been renamed
C25_Witness ==
    /\ lastOp.op \in {"updateTopic", "updateSubtopic"} /\ lastOp.ok
    /\ edits = 2
    /\ \E t \in Range(topics) :
          /\ t.name = trim(ValidName)
          /\ \E s \in Range(t.subtopics) : s.name = trim(ValidName) /\ Len(s.questions) > 0

\* C26: toggleAllInSubtopic(topicId, subtopicId, solved) sets isSolved of
\* every question of that subtopic of that topic to the boolean given and
\* changes nothing else of them; the questions of the other subtopics, and
\* the topics and subtopics, are as they were; a second call with the same
\* boolean changes nothing.
C26_CheckAll ==
    [][(lastOp'.op = "toggleAllInSubtopic" /\ lastOp'.ok) =>
          \A sc \in RealScopes(topics), solved \in {"true", "false", "undefined"} :
             toggleAllInSubtopic(sc[1], sc[2], solved) =>
                /\ EntityPaths(topics') = EntityPaths(topics)
                /\ \A p \in EntityPaths(topics) :
                      LET old == EntityAt(topics, p)
                          new == EntityAt(topics', p)
                      IN  IF Len(p) = 1 THEN [new EXCEPT !.subtopics = old.subtopics] = old
                          ELSE IF Len(p) = 2 THEN [new EXCEPT !.questions = old.questions] = old
                          ELSE IF topics[p[1]].id = sc[1] /\ topics[p[1]].subtopics[p[2]].id = sc[2]
                               THEN new = [old EXCEPT !.isSolved = (solved = "true")]
                               ELSE new = old
                /\ toggleAllInSubtopic_set(topics', sc[1], sc[2], solved) = topics']_vars

\* the two questions of a subtopic, one of them loaded as solved, are both
\* not solved after a check-all with false
C26_Witness ==
    /\ lastOp.op = "toggleAllInSubtopic" /\ lastOp.ok
    /\ sheetData = DocGood /\ edits = 1
    /\ \A q \in Questions(topics) : ~q.isSolved

\* the tree new differs from the tree old in nothing but the questions of
\* the given id, each of which is changed(old question)
OnlyQuestions(old, new, questionId, changed(_)) ==
    /\ EntityPaths(new) = EntityPaths(old)
    /\ \A p \in EntityPaths(old) :
          LET o == EntityAt(old, p)
              n == EntityAt(new, p)
          IN  IF Len(p) = 1 THEN [n EXCEPT !.subtopics = o.subtopics] = o
              ELSE IF Len(p) = 2 THEN [n EXCEPT !.questions = o.questions] = o
              ELSE IF o.id = questionId THEN n = changed(o)
              ELSE n = o

\* C27: toggleQuestionSolved(id) negates isSolved, and updateQuestionNotes(id,
\* notes) replaces notes, of every question of the tree whose id is id, under
\* whatever topic and subtopic it is; no other field of these questions, no
\* other question, no topic and no subtopic changes, and the number and
\* sequence of the entities stay as they were.
C27_ByIdOnly ==
    [][/\ (lastOp'.op = "toggleQuestionSolved" /\ lastOp'.ok) =>
             \A questionId \in QuestionIds(topics) :
                toggleQuestionSolved(questionId) =>
                   LET flipped(q) == [q EXCEPT !.isSolved = ~q.isSolved]
                   IN  OnlyQuestions(topics, topics', questionId, flipped)
       /\ (lastOp'.op = "updateQuestionNotes" /\ lastOp'.ok) =>
             \A questionId \in QuestionIds(topics),
                notes \in {<<" ", "n">>, <<" ">>, Undefined} :
                updateQuestionNotes(questionId, notes) =>
                   LET text == IF notes \in NotAString THEN <<>> ELSE trim(notes)
                       noted(q) == [q EXCEPT !.notes = text]
                   IN  OnlyQuestions(topics, topics', questionId, noted)]_vars

\* two questions of one id under two topics both carry the notes written by
\* one call
C27_Witness ==
    /\ lastOp.op = "updateQuestionNotes" /\ lastOp.ok
    /\ Len(topics) = 2
    /\ \A i \in 1..2 : \E q \in Questions(<<topics[i]>>) : q.notes = <<"n">>

\* the map new is the map old without the entry of key
Pruned(old, new, key) ==
    /\ DOMAIN new = DOMAIN old \ {key}
    /\ \A k \in DOMAIN new : new[k] = old[k]

\* C28: after deleteTopic(id) expandedTopics has no entry for id, and after
\* a deleteSubtopic(topicId, id) that removes a subtopic expandedSubtopics has
\* no entry for id; every other entry of the two maps is as it was.
C28_DeletePrunes ==
    [][/\ (lastOp'.op = "deleteTopic" /\ lastOp'.ok) =>
             \A topicId \in TopicIds(topics) :
                deleteTopic(topicId) =>
                   /\ Pruned(expandedTopics, expandedTopics', topicId)
                   /\ expandedSubtopics' = expandedSubtopics
       /\ (lastOp'.op = "deleteSubtopic" /\ lastOp'.ok) =>
             \A sc \in RealScopes(topics) :
                deleteSubtopic(sc[1], sc[2]) =>
                   /\ Pruned(expandedSubtopics, expandedSubtopics', sc[2])
                   /\ expandedTopics' = expandedTopics]_vars

\* of two topics that were loaded one is deleted, and the entry of the other
\* one is all that expandedTopics has
C28_Witness ==
    /\ lastOp.op = "deleteTopic" /\ lastOp.ok
    /\ sheetData = DocDup /\ edits = 1
    /\ Len(topics) = 1
    /\ DOMAIN expandedTopics = {topics[1].id}
    /\ expandedTopics[topics[1].id]

\* C29: a step that changes the sheet record is a step of fetchSheetData (the
\* load of the mount or of a retry, or the deferred load that resetProgress
\* has scheduled) or of resetProgress; no mutator of the tree and no action
\* of the UI state changes it.
C29_SheetOnlyByLoad ==
    [][sheet' # sheet => lastOp'.op \in {"fetchSheetData", "resetProgress", "timer"}]_vars

\* the sheet record is back after a reset and its deferred load, with the
\* theme that was chosen before the reset
C29_Witness ==
    /\ lastOp.op = "timer"
    /\ MainView
    /\ sheet # NullSheet
    /\ theme # InitialState.theme

\* C30: the percentage of calculateTotalProgress is 0 when the tree has no
\* question, and otherwise an integer nearest to solved / total * 100 (not
\* further than one half from it); solved is at most total and the percentage
\* is an integer from 0 to 100.
C30_Percentage ==
    /\ calculateTotalProgress(topics).solved \in 0..calculateTotalProgress(topics).total
    /\ calculateTotalProgress(topics).percentage \in 0..100
    /\ calculateTotalProgress(topics).total = 0 => calculateTotalProgress(topics).percentage = 0
    /\ calculateTotalProgress(topics).total > 0 =>
          /\ 2 * (100 * calculateTotalProgress(topics).solved
                    - calculateTotalProgress(topics).percentage * calculateTotalProgress(topics).total)
                <= calculateTotalProgress(topics).total
          /\ 2 * (calculateTotalProgress(topics).percentage * calculateTotalProgress(topics).total
                    - 100 * calculateTotalProgress(topics).solved)
                <= calculateTotalProgress(topics).total

\* two of three questions are solved, which is 67 percent
C30_Witness ==
    /\ MainView
    /\ calculateTotalProgress(topics) = [total |-> 3, solved |-> 2, percentage |-> 67]

\* the i-th smallest member of a set of indices
NthOf(pick, i) == CHOOSE k \in pick : Cardinality({j \in pick : j <= k}) = i

\* part is made of elements of whole, each as it is, in the sequence they
\* have in whole
Subsequence(part, whole) ==
    \E pick \in SUBSET DOMAIN whole :
        /\ Cardinality(pick) = Len(part)
        /\ \A i \in DOMAIN part : part[i] = whole[NthOf(pick, i)]

\* C31: what filterQuestions returns for the questions of a subtopic and the
\* search, difficulty and status of the filter bar is a subsequence of these
\* questions: each returned question is one of them with every field, order
\* included, as it is, and the returned questions follow each other as in the
\* input.
C31_FilterSubsequence ==
    \A s \in Subtopics(topics) :
        Subsequence(filterQuestions(s.questions, searchQuery, filterDifficulty, filterStatus),
                    s.questions)

\* of the two questions of a subtopic the filter returns the second one only
C31_Witness ==
    /\ MainView
    /\ \E s \in Subtopics(topics) :
          /\ Len(s.questions) = 2
          /\ filterQuestions(s.questions, searchQuery, filterDifficulty, filterStatus)
                = <<s.questions[2]>>

\* C32: a fetchSheetData that is called while the store holds a topic and
\* loading is false leaves topics, sheet, loading and error as they are: the
\* load of the mount does not overwrite a tree that was restored from the
\* storage.
C32_LoadSkips ==
    [][(lastOp'.op \in {"fetchSheetData", "timer"} /\ Len(topics) > 0 /\ ~loading) =>
          UNCHANGED <<topics, sheet, loading, error>>]_vars

\* the load of the mount after a restart has left alone a tree in which the
\* user had solved every question
C32_Witness ==
    /\ lastOp.op = "fetchSheetData"
    /\ ~mounting
    /\ edits > 0
    /\ Len(topics) > 0
    /\ \A q \in Questions(topics) : q.isSolved

\* C33: when the application is restarted in a state that a completed load
\* has led to (loading false, no error), the state with every topic deleted
\* included, the store hydrated from the storage has the topics it had, and
\* the load of the mount that follows leaves them as they are.
C33_RestartSameTree ==
    [][/\ (lastOp'.op = "create" /\ MainView) => topics' = topics
       /\ (lastOp.op = "create" /\ storage # NoItem /\ lastOp'.op = "fetchSheetData")
             => topics' = topics]_vars

\* a string, and not the empty one
NonEmptyString(value) == value \notin NotAString /\ value # <<>>

\* C34: in every state that the ingest and the mutators lead to, the name of
\* every topic and of every subtopic and the title of every question is a
\* string that is not empty.
C34_NamesNonEmpty ==
    /\ \A t \in Range(topics) : NonEmptyString(t.name)
    /\ \A s \in Subtopics(topics) : NonEmptyString(s.name)
    /\ \A q \in Questions(topics) : NonEmptyString(q.title)

\* the order values of the group do not go down along the sequence
Ascending(group) ==
    \A i, j \in DOMAIN group : i < j => group[i].order <= group[j].order

\* C35: in every reachable state the sequence of every sibling group agrees
\* with order: of two siblings the one that is earlier in the sequence has
\* the order that is less or equal.
C35_SequenceAgreesWithOrder ==
    /\ Ascending(topics)
    /\ \A t \in Range(topics) : Ascending(t.subtopics)
    /\ \A s \in Subtopics(topics) : Ascending(s.questions)

\* C36: after deleteTopic(id) the map expandedSubtopics has no entry for a
\* subtopic that was under a deleted topic.
C36_CascadePrunes ==
    [][(lastOp'.op = "deleteTopic" /\ lastOp'.ok) =>
          \A topicId \in TopicIds(topics) :
             deleteTopic(topicId) =>
                \A t \in Range(topics) :
                   t.id = topicId =>
                      \A s \in Range(t.subtopics) : s.id \notin DOMAIN expandedSubtopics']_vars

\* the element at index from (0-based) taken out and put in at index to
MoveOne(view, from, to) == spliceInsert(spliceRemove(view, from), to, view[from + 1])

\* the questions of a subtopic that the list shows
Shown(tps, topicId, subtopicId) ==
    filterQuestions(QuestionsOf(tps, topicId, subtopicId),
                    searchQuery, filterDifficulty, filterStatus)

\* C37: when a shown question is dragged onto another shown question of a
\* filtered list, the ids of the list shown after reorderQuestions are the
\* ids of the list shown before with the dragged one moved to the place of
\* the other one.
C37_DragMovesInView ==
    [][(lastOp'.op = "reorderQuestions" /\ lastOp'.ok) =>
          \A sc \in RealScopes(topics) :
             \A activeId, overId \in Range(Ids(Shown(topics, sc[1], sc[2]))) :
                (activeId # overId /\ reorderQuestions(sc[1], sc[2], activeId, overId)) =>
                   Ids(Shown(topics', sc[1], sc[2]))
                      = MoveOne(Ids(Shown(topics, sc[1], sc[2])),
                                findIndex(Shown(topics, sc[1], sc[2]), activeId),
                                findIndex(Shown(topics, sc[1], sc[2]), overId))]_vars

\* an item without its order
NoOrder(item) == [f \in DOMAIN item \ {"order"} |-> item[f]]

\* the group new has the items of the group old, each once and each with
\* every field but order as it was
SameItems(old, new) ==
    /\ Len(new) = Len(old)
    /\ \E perm \in [DOMAIN old -> DOMAIN old] :
          /\ \A i, j \in DOMAIN old : perm[i] = perm[j] => i = j
          /\ \A i \in DOMAIN old : NoOrder(new[i]) = NoOrder(old[perm[i]])

\* C38: a reorder call changes the sequence and the order values of the
\* addressed sibling group and nothing else: the group has the same items
\* after the call, none lost and none twice, each with every field but order
\* as it was, its children included, and every other group of the tree has
\* the sequence and the order values it had.
C38_ReorderFrame ==
    [][/\ (lastOp'.op = "reorderTopics" /\ lastOp'.ok) => SameItems(topics, topics')
       /\ (lastOp'.op = "reorderSubtopics" /\ lastOp'.ok) =>
            \A a \in ReorderSubtopicsArgs(topics) :
               reorderSubtopics(a[1], a[2], a[3]) =>
                  /\ Len(topics') = Len(topics)
                  /\ \A i \in DOMAIN topics :
                        IF topics[i].id = a[1]
                        THEN /\ [topics'[i] EXCEPT !.subtopics = topics[i].subtopics] = topics[i]
                             /\ SameItems(topics[i].subtopics, topics'[i].subtopics)
                        ELSE topics'[i] = topics[i]
       /\ (lastOp'.op = "reorderQuestions" /\ lastOp'.ok) =>
            \A a \in ReorderQuestionsArgs(topics) :
               reorderQuestions(a[1], a[2], a[3], a[4]) =>
                  /\ EntityPaths(topics') = EntityPaths(topics)
                  /\ \A p \in EntityPaths(topics) :
                        IF Len(p) = 1
                        THEN [EntityAt(topics', p) EXCEPT !.subtopics = topics[p[1]].subtopics]
                                = topics[p[1]]
                        ELSE Len(p) = 2 =>
                           IF topics[p[1]].id = a[1] /\ EntityAt(topics, p).id = a[2]
                           THEN /\ [EntityAt(topics', p) EXCEPT
                                       !.questions = EntityAt(topics, p).questions]
                                      = EntityAt(topics, p)
                                /\ SameItems(EntityAt(topics, p).questions,
                                             EntityAt(topics', p).questions)
                           ELSE EntityAt(topics', p) = EntityAt(topics, p)
      ]_vars

\* the subtopic that was ingested with three questions has been moved behind
\* a subtopic added after it, and has its three questions
C38_Witness ==
    /\ lastOp.op = "reorderSubtopics" /\ lastOp.ok
    /\ Len(topics) = 1
    /\ Len(topics[1].subtopics) = 2
    /\ topics[1].subtopics[1].questions = <<>>
    /\ Len(topics[1].subtopics[2].questions) = 3
    /\ topics[1].subtopics[2].order = 1

\* C39: loading and an error are never there together, and when a call of
\* fetchSheetData has returned (the one of the mount, of a retry, or the one
\* that resetProgress deferred) loading is false.
C39_LoadingOrError ==
    /\ [](~(loading /\ error # NoError))
    /\ [][lastOp'.op \in {"fetchSheetData", "timer"} => ~loading']_vars

\* a load has failed: the error is set and loading is false
C39_Witness ==
    /\ lastOp.op = "fetchSheetData"
    /\ error # NoError
    /\ ~loading

\* loading is false and the topics are those of an ingest of the source
\* document (generated ids compared without their uuid), if it can be ingested
FreshIngest ==
    transformSheetData(sheetData, {}).ok =>
        /\ ~loading
        /\ StripUuid(topics) = StripUuid(transformSheetData(sheetData, {}).topics)

\* C40: whatever calls of the store are made between a resetProgress and its
\* deferred re-ingest (mutators, another resetProgress, a fetchSheetData), when
\* the last scheduled callback has run loading is false and the topics are
\* those of a fresh ingest of the source, without an item added in between.
C40_ResetOutcome ==
    [][(lastOp'.op = "timer" /\ pending' = 0) => FreshIngest']_vars
====
